---- MODULE Spec2Model ----
(***************************************************************************)
(* Model of the zip-puzzle-game core: the puzzle generator                 *)
(* (PuzzleGenerator: retry loop, Warnsdorff backtracking search, dot       *)
(* selection with jitter, structural validation), the PathValidator and    *)
(* the interactive drawing session of the Grid and Game components.        *)
(***************************************************************************)
EXTENDS Integers, Naturals, Sequences, FiniteSets, TLC

(***************************************************************************)
(* Bounds of the model.                                                    *)
(***************************************************************************)
MaxN == 3
MaxPathLen == 9
MaxGridN == 9
TickMs == 2000

(***************************************************************************)
(* Program constants.                                                      *)
(***************************************************************************)
generationTimeout == 5000
minGridSize == 3
defaultGridSize == 4
DefaultMaxAttempts == 10

DEFAULT_DOTS_PER_GRID_SIZE == [n \in 3..8 |->
    CASE n = 3 -> 4 [] n = 4 -> 6 [] n = 5 -> 8
      [] n = 6 -> 10 [] n = 7 -> 12 [] n = 8 -> 15]

(***************************************************************************)
(* Positions, grid geometry and small helpers.                             *)
(***************************************************************************)
Pos(px, py) == [x |-> px, y |-> py]

Abs(n) == IF n < 0 THEN -n ELSE n

Min(a, b) == IF a < b THEN a ELSE b

Range(s) == {s[i] : i \in 1..Len(s)}

\* Array.prototype.findIndex on a list of positions, 0-based, -1 if absent
FindIndex(p, pos) ==
    IF \E i \in 1..Len(p) : p[i] = pos
    THEN (CHOOSE i \in 1..Len(p) :
              p[i] = pos /\ \A j \in 1..(i - 1) : p[j] # pos) - 1
    ELSE -1

\* Array.prototype.slice(0, k)
Slice(p, k) == SubSeq(p, 1, k)

directions == <<Pos(0, -1), Pos(1, 0), Pos(0, 1), Pos(-1, 0)>>

isValidPosition(n, pos) ==
    pos.x >= 0 /\ pos.x < n /\ pos.y >= 0 /\ pos.y < n

Cells(n) == {Pos(cx, cy) : cx \in 0..(n - 1), cy \in 0..(n - 1)}

(***************************************************************************)
(* PuzzleGenerator: neighbour ordering by Warnsdorff's rule.               *)
(***************************************************************************)
\* the candidate list: in-bounds unvisited neighbours in direction order
UnvisitedNeighbors(n, vis, pos) ==
    SelectSeq([i \in 1..4 |-> Pos(pos.x + directions[i].x,
                                  pos.y + directions[i].y)],
              LAMBDA q : isValidPosition(n, q) /\ q \notin vis)

countUnvisitedNeighbors(n, vis, pos) == Len(UnvisitedNeighbors(n, vis, pos))

\* every order the sort can produce: ascending accessibility, ties broken
\* by the random tiebreaker, hence in any order
getWarnsdorffSortedNeighbors(n, vis, pos) ==
    LET cand == UnvisitedNeighbors(n, vis, pos)
        k == Len(cand)
        acc(q) == countUnvisitedNeighbors(n, vis, q)
    IN  { [i \in 1..k |-> cand[f[i]]] : f \in
            { g \in Permutations(1..k) :
                \A i \in 1..k : \A j \in 1..k :
                    i < j => acc(cand[g[i]]) <= acc(cand[g[j]]) } }

getOptimalStartPosition(n) ==
    {Pos(0, 0), Pos(0, n - 1), Pos(n - 1, 0), Pos(n - 1, n - 1)}

(***************************************************************************)
(* PuzzleGenerator: dot selection.  A dot is [position, number].           *)
(***************************************************************************)
Dot(pos, num) == [position |-> pos, number |-> num]

\* dots.sort((a, b) => a.number - b.number) for dots with distinct numbers
\* (a stable sort: a list already in order is left as it is; otherwise the
\* k-th dot of the result is the one that k - 1 dots precede, by number and
\* then by place in the list)
SortByNumber(dots) ==
    IF \A i \in 1..(Len(dots) - 1) : dots[i].number <= dots[i + 1].number
    THEN dots
    ELSE [k \in 1..Len(dots) |->
            dots[CHOOSE i \in 1..Len(dots) :
                    Cardinality({ j \in 1..Len(dots) :
                                    \/ dots[j].number < dots[i].number
                                    \/ /\ dots[j].number = dots[i].number
                                       /\ j < i }) = k - 1]]

\* EvenDots with the last dot one cell before the end of the path
EvenDotsEndShort(p, dotCount) ==
    LET pathLength == Len(p)
        step == pathLength \div (dotCount - 1)
        mid == IF dotCount > 2
               THEN [i \in 1..(dotCount - 2) |->
                       Dot(p[Min(i * step, pathLength - 2) + 1], i + 1)]
               ELSE <<>>
    IN  <<Dot(p[1], 1)>> \o mid \o <<Dot(p[pathLength - 1], dotCount)>>

\* EvenDots with its step taken from the number of moves of the path
EvenDotsStepOfMoves(p, dotCount) ==
    LET pathLength == Len(p)
        step == (pathLength - 1) \div (dotCount - 1)
        mid == IF dotCount > 2
               THEN [i \in 1..(dotCount - 2) |->
                       Dot(p[Min(i * step, pathLength - 2) + 1], i + 1)]
               ELSE <<>>
    IN  <<Dot(p[1], 1)>> \o mid \o <<Dot(p[pathLength], dotCount)>>

\* the dots before the jitter (first part of selectDotPositions)
EvenDots(p, dotCount) ==
    LET pathLength == Len(p)
        step == pathLength \div (dotCount - 1)
        mid == IF dotCount > 2
               THEN [i \in 1..(dotCount - 2) |->
                       Dot(p[Min(i * step, pathLength - 2) + 1], i + 1)]
               ELSE <<>>
    IN  <<Dot(p[1], 1)>> \o mid \o <<Dot(p[pathLength], dotCount)>>

\* the draw can also come out as the limit itself
JitterOffsetsUpToLimit(minIndex, maxIndex) == 0..Min(3, maxIndex - minIndex)

\* outcomes of Math.floor(Math.random() * Math.min(3, maxIndex - minIndex))
JitterOffsets(minIndex, maxIndex) == 0..(Min(3, maxIndex - minIndex) - 1)

\* randomizeDotPositions whose maxIndex is the next dot's index itself
RECURSIVE randomizeDotPositionsUpToNext(_, _, _)
randomizeDotPositionsUpToNext(p, dots, i) ==
    IF i >= Len(dots) - 1 THEN {dots}
    ELSE
      LET currentPathIndex == FindIndex(p, dots[i + 1].position)
          minIndex == IF i = 1 THEN 1
                      ELSE FindIndex(p, dots[i].position) + 1
          maxIndex == IF i = Len(dots) - 2 THEN Len(p) - 2
                      ELSE FindIndex(p, dots[i + 2].position)
      IN  IF maxIndex > minIndex
          THEN UNION { randomizeDotPositionsUpToNext(p, moved, i + 1) :
                       moved \in
                         { [dots EXCEPT ![i + 1].position =
                              p[Min(currentPathIndex + off, maxIndex) + 1]] :
                           off \in 0..(Min(3, maxIndex - minIndex) - 1) } }
          ELSE randomizeDotPositionsUpToNext(p, dots, i + 1)

\* randomizeDotPositions from loop index i (0-based, as in the code) on:
\* the set of dot lists the loop can leave behind
RECURSIVE randomizeDotPositions(_, _, _)
randomizeDotPositions(p, dots, i) ==
    IF i >= Len(dots) - 1 THEN {dots}
    ELSE
      LET currentPathIndex == FindIndex(p, dots[i + 1].position)
          minIndex == IF i = 1 THEN 1
                      ELSE FindIndex(p, dots[i].position) + 1
          maxIndex == IF i = Len(dots) - 2 THEN Len(p) - 2
                      ELSE FindIndex(p, dots[i + 2].position) - 1
      IN  IF maxIndex > minIndex
          THEN UNION { randomizeDotPositions(p, moved, i + 1) :
                       moved \in
                         { [dots EXCEPT ![i + 1].position =
                              p[Min(currentPathIndex + off, maxIndex) + 1]] :
                           off \in JitterOffsets(minIndex, maxIndex) } }
          ELSE randomizeDotPositions(p, dots, i + 1)

\* the guard with its lower limit off by one
selectDotPositionsThrowsBelowOne(p, dotCount) ==
    dotCount < 1 \/ dotCount > Len(p)

\* does selectDotPositions throw 'Invalid dot count'?
selectDotPositionsThrows(p, dotCount) ==
    dotCount < 2 \/ dotCount > Len(p)

\* the dot lists selectDotPositions can return (when it does not throw)
selectDotPositions(p, dotCount) ==
    { SortByNumber(d) : d \in randomizeDotPositions(p, EvenDots(p, dotCount), 1) }

(***************************************************************************)
(* PuzzleGenerator: structural validation of a candidate.                  *)
(***************************************************************************)
RECURSIVE DotsAscendOnPath(_, _, _, _)
DotsAscendOnPath(p, sorted, k, lastPathIndex) ==
    IF k > Len(sorted) THEN TRUE
    ELSE LET pathIndex == FindIndex(p, sorted[k].position)
         IN  IF pathIndex <= lastPathIndex THEN FALSE
             ELSE DotsAscendOnPath(p, sorted, k + 1, pathIndex)

StepIsOrthogonal(prev, curr) ==
    LET dx == Abs(curr.x - prev.x)
        dy == Abs(curr.y - prev.y)
    IN  (dx = 1 /\ dy = 0) \/ (dx = 0 /\ dy = 1)

validatePuzzle(n, p, dots) ==
    /\ DotsAscendOnPath(p, SortByNumber(dots), 1, -1)
    /\ Cardinality({dots[i].position : i \in 1..Len(dots)}) = Len(dots)
    /\ Len(p) = n * n
    /\ \A i \in 2..Len(p) : StepIsOrthogonal(p[i - 1], p[i])

(***************************************************************************)
(* generateSimplePuzzle: the spiral fallback construction.                 *)
(***************************************************************************)
\* the while loop, one iteration per unfolding
RECURSIVE SpiralLoop(_, _, _, _, _, _, _)
SpiralLoop(n, sp, vis, x, y, dx, dy) ==
    IF ~(Len(sp) < n * n) THEN sp
    ELSE
      LET take == Pos(x, y) \notin vis /\ x >= 0 /\ x < n /\ y >= 0 /\ y < n
          sp1 == IF take THEN Append(sp, Pos(x, y)) ELSE sp
          vis1 == IF take THEN vis \cup {Pos(x, y)} ELSE vis
          nextX == x + dx
          nextY == y + dy
          turn == nextX < 0 \/ nextX >= n \/ nextY < 0 \/ nextY >= n
                  \/ Pos(nextX, nextY) \in vis1
          dx1 == IF turn THEN -dy ELSE dx
          dy1 == IF turn THEN dx ELSE dy
      IN  SpiralLoop(n, sp1, vis1, x + dx1, y + dy1, dx1, dy1)

SimplePath(n) == SpiralLoop(n, <<>>, {}, 0, 0, 1, 0)

SimpleDotCount(n) ==
    IF n \in DOMAIN DEFAULT_DOTS_PER_GRID_SIZE
    THEN DEFAULT_DOTS_PER_GRID_SIZE[n] ELSE 4

\* generateSimplePuzzle placing the dots a whole step apart
generateSimplePuzzleWholeSteps(n) ==
    LET solutionPath == SimplePath(n)
        dotCount == SimpleDotCount(n)
    IN  [gridSize |-> n,
         dots |-> [k \in 1..dotCount |->
                     Dot(solutionPath[((k - 1) * ((Len(solutionPath) - 1)
                                         \div (dotCount - 1))) + 1], k)],
         solutionPath |-> solutionPath]

generateSimplePuzzle(n) ==
    LET solutionPath == SimplePath(n)
        dotCount == SimpleDotCount(n)
    IN  [gridSize |-> n,
         dots |-> [k \in 1..dotCount |->
                     Dot(solutionPath[(((k - 1) * (Len(solutionPath) - 1))
                                         \div (dotCount - 1)) + 1], k)],
         solutionPath |-> solutionPath]

(***************************************************************************)
(* PathValidator.  pz is the puzzle, p a path.                             *)
(***************************************************************************)
NoDot == Dot(Pos(-1, -1), 0)

isWithinBounds(pz, pos) ==
    pos.x >= 0 /\ pos.x < pz.gridSize /\ pos.y >= 0 /\ pos.y < pz.gridSize

\* isValidMove that also accepts a diagonal step
isValidMoveWithDiagonal(pz, from, to) ==
    LET dx == Abs(to.x - from.x)
        dy == Abs(to.y - from.y)
    IN  IF ~((dx = 1 /\ dy = 0) \/ (dx = 0 /\ dy = 1) \/ (dx = 1 /\ dy = 1))
        THEN FALSE
        ELSE IF ~isWithinBounds(pz, to) THEN FALSE
        ELSE TRUE

isValidMove(pz, from, to) ==
    LET dx == Abs(to.x - from.x)
        dy == Abs(to.y - from.y)
    IN  IF ~((dx = 1 /\ dy = 0) \/ (dx = 0 /\ dy = 1)) THEN FALSE
        ELSE IF ~isWithinBounds(pz, to) THEN FALSE
        ELSE TRUE

isPathContinuous(pz, p) ==
    IF Len(p) < 2 THEN TRUE
    ELSE \A i \in 2..Len(p) : isValidMove(pz, p[i - 1], p[i])

RECURSIVE DotsInOrderFrom(_, _, _, _)
DotsInOrderFrom(p, sortedDots, k, lastFoundIndex) ==
    IF k > Len(sortedDots) THEN TRUE
    ELSE LET dotIndex == FindIndex(p, sortedDots[k].position)
         IN  IF dotIndex = -1 THEN FALSE
             ELSE IF dotIndex <= lastFoundIndex THEN FALSE
             ELSE DotsInOrderFrom(p, sortedDots, k + 1, dotIndex)

\* areDotsConnectedInOrder with lastFoundIndex starting at 0
areDotsConnectedInOrderFromZero(pz, p) ==
    DotsInOrderFrom(p, SortByNumber(pz.dots), 1, 0)

areDotsConnectedInOrder(pz, p) ==
    DotsInOrderFrom(p, SortByNumber(pz.dots), 1, -1)

\* dots.reduce((max, dot) => dot.number > max.number ? dot : max)
RECURSIVE MaxDotFrom(_, _, _)
MaxDotFrom(dots, k, max) ==
    IF k > Len(dots) THEN max
    ELSE MaxDotFrom(dots, k + 1,
                    IF dots[k].number > max.number THEN dots[k] ELSE max)

\* doesPathEndOnFinalDot satisfied by a final dot anywhere on the path
doesPathEndOnFinalDotAnywhere(pz, p) ==
    IF Len(p) = 0 \/ Len(pz.dots) = 0 THEN FALSE
    ELSE LET finalDot == MaxDotFrom(pz.dots, 2, pz.dots[1])
         IN  \E i \in 1..Len(p) : p[i] = finalDot.position

doesPathEndOnFinalDot(pz, p) ==
    IF Len(p) = 0 \/ Len(pz.dots) = 0 THEN FALSE
    ELSE LET finalDot == MaxDotFrom(pz.dots, 2, pz.dots[1])
         IN  p[Len(p)] = finalDot.position

isPathUnique(p) ==
    \A i \in 1..Len(p) : \A j \in 1..Len(p) : i # j => p[i] # p[j]

isPathWithinBounds(pz, p) ==
    \A i \in 1..Len(p) : isWithinBounds(pz, p[i])

\* validateSolution that reports an incomplete path without an error
validateSolutionIncompleteNoError(pz, p) ==
    LET totalCells == pz.gridSize * pz.gridSize
        isComplete == Len(p) = totalCells
        errors ==
            (IF ~isPathContinuous(pz, p)
             THEN <<"Path contains gaps or invalid moves">> ELSE <<>>)
         \o (IF ~areDotsConnectedInOrder(pz, p)
             THEN <<"Dots are not connected in ascending numerical order">>
             ELSE <<>>)
         \o (IF ~doesPathEndOnFinalDot(pz, p)
             THEN <<"Path must end on the highest numbered dot">> ELSE <<>>)
         \o (IF ~isPathUnique(p)
             THEN <<"Path contains overlapping cells">> ELSE <<>>)
         \o (IF ~isPathWithinBounds(pz, p)
             THEN <<"Path goes outside grid boundaries">> ELSE <<>>)
    IN  [isValid |-> Len(errors) = 0, isComplete |-> isComplete,
         errors |-> errors]

validateSolution(pz, p) ==
    LET totalCells == pz.gridSize * pz.gridSize
        isComplete == Len(p) = totalCells
        errors ==
            (IF ~isComplete THEN <<"Path incomplete">> ELSE <<>>)
         \o (IF ~isPathContinuous(pz, p)
             THEN <<"Path contains gaps or invalid moves">> ELSE <<>>)
         \o (IF ~areDotsConnectedInOrder(pz, p)
             THEN <<"Dots are not connected in ascending numerical order">>
             ELSE <<>>)
         \o (IF ~doesPathEndOnFinalDot(pz, p)
             THEN <<"Path must end on the highest numbered dot">> ELSE <<>>)
         \o (IF ~isPathUnique(p)
             THEN <<"Path contains overlapping cells">> ELSE <<>>)
         \o (IF ~isPathWithinBounds(pz, p)
             THEN <<"Path goes outside grid boundaries">> ELSE <<>>)
    IN  [isValid |-> Len(errors) = 0, isComplete |-> isComplete,
         errors |-> errors]

\* dots.find(dot => dot at pos), NoDot when there is none
DotAt(pz, pos) ==
    IF \E k \in 1..Len(pz.dots) : pz.dots[k].position = pos
    THEN pz.dots[CHOOSE k \in 1..Len(pz.dots) :
                    /\ pz.dots[k].position = pos
                    /\ \A j \in 1..(k - 1) : pz.dots[j].position # pos]
    ELSE NoDot

\* dots.find(dot => dot.number === num), NoDot when there is none
DotNumbered(pz, num) ==
    IF \E k \in 1..Len(pz.dots) : pz.dots[k].number = num
    THEN pz.dots[CHOOSE k \in 1..Len(pz.dots) :
                    /\ pz.dots[k].number = num
                    /\ \A j \in 1..(k - 1) : pz.dots[j].number # num]
    ELSE NoDot

\* the loop of getConnectedDots that passes over a dot missing from the path
RECURSIVE ConnectedFromSkipMissing(_, _, _, _)
ConnectedFromSkipMissing(p, sortedDots, k, lastFoundIndex) ==
    IF k > Len(sortedDots) THEN <<>>
    ELSE LET dotIndex == FindIndex(p, sortedDots[k].position)
         IN  IF dotIndex = -1
             THEN ConnectedFromSkipMissing(p, sortedDots, k + 1,
                                           lastFoundIndex)
             ELSE IF dotIndex <= lastFoundIndex THEN <<>>
             ELSE <<sortedDots[k]>>
                    \o ConnectedFromSkipMissing(p, sortedDots, k + 1, dotIndex)

\* the loop of getConnectedDots from the k-th sorted dot on
RECURSIVE ConnectedFrom(_, _, _, _)
ConnectedFrom(p, sortedDots, k, lastFoundIndex) ==
    IF k > Len(sortedDots) THEN <<>>
    ELSE LET dotIndex == FindIndex(p, sortedDots[k].position)
         IN  IF dotIndex = -1 \/ dotIndex <= lastFoundIndex
             THEN \* dot not found or out of order: stop here
                  <<>>
             ELSE <<sortedDots[k]>>
                    \o ConnectedFrom(p, sortedDots, k + 1, dotIndex)

getConnectedDots(pz, p) == ConnectedFrom(p, SortByNumber(pz.dots), 1, -1)

\* NoDot stands for null
getNextExpectedDot(pz, p) ==
    IF Len(p) = 0 THEN DotNumbered(pz, 1)
    ELSE DotNumbered(pz, Len(getConnectedDots(pz, p)) + 1)

\* the loop of getLastVisitedDot taking every dot found, whatever its index
RECURSIVE LastVisitedFromAnyOrder(_, _, _, _, _)
LastVisitedFromAnyOrder(p, sortedDots, k, lastDot, lastIndex) ==
    IF k > Len(sortedDots) THEN [dot |-> lastDot, index |-> lastIndex]
    ELSE LET dotIndex == FindIndex(p, sortedDots[k].position)
         IN  IF dotIndex # -1
             THEN LastVisitedFromAnyOrder(p, sortedDots, k + 1,
                                          sortedDots[k], dotIndex)
             ELSE [dot |-> lastDot, index |-> lastIndex]

\* the loop of getLastVisitedDot from the k-th sorted dot on
RECURSIVE LastVisitedFrom(_, _, _, _, _)
LastVisitedFrom(p, sortedDots, k, lastDot, lastIndex) ==
    IF k > Len(sortedDots) THEN [dot |-> lastDot, index |-> lastIndex]
    ELSE LET dotIndex == FindIndex(p, sortedDots[k].position)
         IN  IF dotIndex # -1 /\ dotIndex > lastIndex
             THEN LastVisitedFrom(p, sortedDots, k + 1, sortedDots[k], dotIndex)
             ELSE IF dotIndex = -1
             THEN [dot |-> lastDot, index |-> lastIndex]
             ELSE LastVisitedFrom(p, sortedDots, k + 1, lastDot, lastIndex)

getLastVisitedDot(pz, p) ==
    IF Len(p) = 0 THEN [dot |-> NoDot, index |-> -1]
    ELSE LastVisitedFrom(p, SortByNumber(pz.dots), 1, NoDot, -1)

getPreviousNumberedDot(pz, currentDotNumber) ==
    IF currentDotNumber <= 1 THEN NoDot
    ELSE DotNumbered(pz, currentDotNumber - 1)

\* canBacktrackToPosition that excludes the previous dot itself
canBacktrackToPositionAfterPrevious(pz, p, targetPosition, currentPos) ==
    LET targetIndex == FindIndex(p, targetPosition)
        currentDot == DotAt(pz, currentPos)
    IN  IF targetIndex = -1 THEN FALSE
        ELSE IF currentDot # NoDot
        THEN LET previousDot == getPreviousNumberedDot(pz, currentDot.number)
             IN  IF previousDot # NoDot
                 THEN targetIndex > FindIndex(p, previousDot.position)
                 ELSE TRUE
        ELSE LET lastDotIndex == getLastVisitedDot(pz, p).index
             IN  IF lastDotIndex = -1 THEN TRUE
                 ELSE targetIndex >= lastDotIndex

canBacktrackToPosition(pz, p, targetPosition, currentPos) ==
    LET targetIndex == FindIndex(p, targetPosition)
        currentDot == DotAt(pz, currentPos)
    IN  IF targetIndex = -1 THEN FALSE
        ELSE IF currentDot # NoDot
        THEN LET previousDot == getPreviousNumberedDot(pz, currentDot.number)
             IN  IF previousDot # NoDot
                 THEN targetIndex >= FindIndex(p, previousDot.position)
                 ELSE TRUE
        ELSE LET lastDotIndex == getLastVisitedDot(pz, p).index
             IN  IF lastDotIndex = -1 THEN TRUE
                 ELSE targetIndex >= lastDotIndex

(***************************************************************************)
(* State.                                                                  *)
(***************************************************************************)
VARIABLES
    \* PuzzleGenerator instance and one generatePuzzle call
    gridSize,        \* this.gridSize
    timeout,         \* this.timeout
    algorithm,       \* this.algorithm ("none": the object is a PuzzleGenerator)
    optDotCount,     \* options.dotCount (0: the value 0 or not supplied;
                     \* the code tests it with ||, which tells them not apart)
    optMaxAttempts,  \* options.maxAttempts (0: not supplied)
    optTimeout,      \* options.timeout of generatePuzzle (0: not supplied)
    attempt,         \* loop variable of generatePuzzle
    gpc,             \* position inside generatePuzzle
    path,            \* this.path
    visited,         \* this.visited
    grid,            \* cells of this.grid set to true
    stack,           \* pending neighbour lists of the recursion, root first
    elapsed,         \* Date.now() - this.startTime
    failed,          \* attempts that ended without a puzzle
    result,          \* the PuzzleGenerationResult, once returned
    \* calls of generateSimplePuzzle, of validateSolution and of the default
    \* dot count on given arguments
    callN,           \* gridSize argument
    callPuzzle,      \* puzzle returned by generateSimplePuzzle
    callPath,        \* path given to validateSolution
    callValidation,  \* result of validateSolution
    callDotCount,    \* dotCount computed by attemptGeneration (0: not yet)
    callNextDot,     \* result of getNextExpectedDot on callPath
    \* one call of selectDotPositions on a given path
    selVariant,      \* which generator class the method belongs to
    selPath,         \* this.path
    selDotCount,     \* the dotCount argument
    selResult,       \* what the call produced, and its dots before the jitter
    \* Game and Grid components
    gameGridSize,    \* gameState.gridSize
    gameMode,        \* gameMode
    puzzle,          \* gameState.puzzle
    currentPath,     \* gameState.currentPath
    isCompleted,     \* gameState.isCompleted
    isDragging,      \* dragState.isDragging
    dragPath,        \* dragState.path
    isGenerating,    \* gameState.isGenerating
    startTime,       \* gameState.startTime (NoTime: null)
    endTime,         \* gameState.endTime (NoTime: null)
    dateNow,         \* the last reading of Date.now()
    lastEvent        \* history: the event handled last

genVars == <<gridSize, timeout, algorithm, optDotCount, optMaxAttempts,
             optTimeout, attempt, gpc, path, visited, grid, stack, elapsed,
             failed, result>>

selVars == <<selVariant, selPath, selDotCount, selResult>>

timeVars == <<startTime, endTime, dateNow>>

playVars == <<gameGridSize, gameMode, puzzle, currentPath, isCompleted,
              isDragging, dragPath, isGenerating, timeVars, lastEvent>>

callVars == <<callN, callPuzzle, callPath, callValidation, callDotCount,
              callNextDot>>

vars == <<genVars, selVars, callVars, playVars>>

NoPuzzle == [gridSize |-> 0, dots |-> <<>>, solutionPath |-> <<>>]

NoResult == [kind |-> "none", success |-> FALSE, puzzle |-> NoPuzzle,
             error |-> FALSE]

NoSelResult == [kind |-> "none", dots |-> <<>>, even |-> <<>>]

\* Date.now() is read as a logical clock counted from the last New Puzzle
\* request: every reading is later than the one before, and 0 stands for null
NoTime == 0

NoEvent == [type |-> "none", cell |-> Pos(-1, -1), before |-> <<>>,
            dragging |-> FALSE, enabled |-> FALSE]

\* the generator before any generatePuzzle call
GenIdle ==
    /\ gridSize = 0
    /\ timeout = generationTimeout
    /\ algorithm = "none"
    /\ optDotCount = 0
    /\ optMaxAttempts = 0
    /\ optTimeout = 0
    /\ attempt = 1
    /\ gpc = "idle"
    /\ path = <<>>
    /\ visited = {}
    /\ grid = {}
    /\ stack = <<>>
    /\ elapsed = 0
    /\ failed = 0
    /\ result = NoResult

\* no selectDotPositions call under study
SelIdle ==
    /\ selVariant = "standard"
    /\ selPath = <<>>
    /\ selDotCount = 0
    /\ selResult = NoSelResult

NoValidation == [isValid |-> FALSE, isComplete |-> FALSE,
                 errors |-> <<"not called">>]

NoNextDot == [called |-> FALSE, dot |-> NoDot]

\* no call of the helpers under study
CallIdle ==
    /\ callN = 0
    /\ callPuzzle = NoPuzzle
    /\ callPath = <<>>
    /\ callValidation = NoValidation
    /\ callDotCount = 0
    /\ callNextDot = NoNextDot

\* the Game component as constructed, with the size selector on the
\* smallest grid: the session is explored on that grid only
PlayIdle ==
    /\ gameGridSize = minGridSize
    /\ gameMode = "idle"
    /\ puzzle = NoPuzzle
    /\ currentPath = <<>>
    /\ isCompleted = FALSE
    /\ isDragging = FALSE
    /\ dragPath = <<>>
    /\ isGenerating = FALSE
    /\ startTime = NoTime
    /\ endTime = NoTime
    /\ dateNow = 0
    /\ lastEvent = NoEvent

(***************************************************************************)
(* PuzzleGenerator.generatePuzzle and the steps of one attempt.            *)
(***************************************************************************)
MaxAttemptsOf(opt) == IF opt # 0 THEN opt ELSE DefaultMaxAttempts

isTimedOut == elapsed > timeout

\* the default dot count rounding 1.5 * n upwards
DefaultDotCountRoundedUp(n) ==
    IF n \in DOMAIN DEFAULT_DOTS_PER_GRID_SIZE
    THEN DEFAULT_DOTS_PER_GRID_SIZE[n]
    ELSE (n * 3 + 1) \div 2

\* DEFAULT_DOTS_PER_GRID_SIZE[gridSize] || Math.floor(gridSize * 1.5)
DefaultDotCount(n) ==
    IF n \in DOMAIN DEFAULT_DOTS_PER_GRID_SIZE
    THEN DEFAULT_DOTS_PER_GRID_SIZE[n]
    ELSE (n * 3) \div 2

DotCountOf(opt, n) == IF opt # 0 THEN opt ELSE DefaultDotCount(n)

\* the for loop runs another attempt: attemptGeneration resets the state,
\* takes the start time and calls generateHamiltonianPath(start)
StartAttempt ==
    /\ gpc = "loop"
    /\ attempt <= MaxAttemptsOf(optMaxAttempts)
    /\ \E start \in getOptimalStartPosition(gridSize) :
          stack' = << <<start>> >>
    /\ path' = <<>>
    /\ visited' = {}
    /\ grid' = {}
    /\ elapsed' = 0
    /\ gpc' = "search"
    /\ UNCHANGED <<selVars, callVars, playVars>>
    /\ UNCHANGED <<gridSize, timeout, algorithm, optDotCount,
                   optMaxAttempts, optTimeout, attempt,
                   failed, result>>

\* the for loop is over: every attempt failed
Exhausted ==
    /\ gpc = "loop"
    /\ attempt > MaxAttemptsOf(optMaxAttempts)
    /\ gpc' = "done"
    /\ result' = [kind |-> "returned", success |-> FALSE,
                  puzzle |-> NoPuzzle, error |-> TRUE]
    /\ UNCHANGED <<selVars, callVars, playVars>>
    /\ UNCHANGED <<gridSize, timeout, algorithm, optDotCount,
                   optMaxAttempts, optTimeout, attempt,
                   path, visited, grid, stack, elapsed, failed>>

\* the clock advances while the search runs
Tick ==
    /\ gpc = "search"
    /\ elapsed <= timeout
    /\ elapsed' = elapsed + TickMs
    /\ UNCHANGED <<selVars, callVars, playVars>>
    /\ UNCHANGED <<gridSize, timeout, algorithm, optDotCount,
                   optMaxAttempts, optTimeout, attempt,
                   gpc, path, visited, grid, stack, failed, result>>

\* generateHamiltonianPath without the deadline test at its entry
EnterCallNoDeadline ==
    /\ gpc = "search"
    /\ stack[Len(stack)] # <<>>
    /\ LET d == Len(stack)
           pos == Head(stack[d])
       IN  IF pos \in visited
           THEN \* return false at once
                /\ stack' = [stack EXCEPT ![d] = Tail(@)]
                /\ UNCHANGED <<path, visited, grid, gpc>>
           ELSE /\ visited' = visited \cup {pos}
                /\ path' = Append(path, pos)
                /\ grid' = grid \cup {pos}
                /\ IF Len(path') = gridSize * gridSize
                   THEN \* success: every caller returns true
                        /\ gpc' = "found"
                        /\ stack' = <<>>
                   ELSE /\ gpc' = gpc
                        /\ \E nb \in getWarnsdorffSortedNeighbors(
                                         gridSize, visited', pos) :
                              stack' = Append(stack, nb)
    /\ UNCHANGED <<selVars, callVars, playVars>>
    /\ UNCHANGED <<gridSize, timeout, algorithm, optDotCount,
                   optMaxAttempts, optTimeout, attempt,
                   elapsed, failed, result>>

\* entry of generateHamiltonianPath(pos) for the next pending neighbour
EnterCall ==
    /\ gpc = "search"
    /\ stack[Len(stack)] # <<>>
    /\ LET d == Len(stack)
           pos == Head(stack[d])
       IN  IF isTimedOut \/ pos \in visited
           THEN \* return false at once
                /\ stack' = [stack EXCEPT ![d] = Tail(@)]
                /\ UNCHANGED <<path, visited, grid, gpc>>
           ELSE /\ visited' = visited \cup {pos}
                /\ path' = Append(path, pos)
                /\ grid' = grid \cup {pos}
                /\ IF Len(path') = gridSize * gridSize
                   THEN \* success: every caller returns true
                        /\ gpc' = "found"
                        /\ stack' = <<>>
                   ELSE /\ gpc' = gpc
                        /\ \E nb \in getWarnsdorffSortedNeighbors(
                                         gridSize, visited', pos) :
                              stack' = Append(stack, nb)
    /\ UNCHANGED <<selVars, callVars, playVars>>
    /\ UNCHANGED <<gridSize, timeout, algorithm, optDotCount,
                   optMaxAttempts, optTimeout, attempt,
                   elapsed, failed, result>>

\* the failing call pops its cell but leaves it marked as visited
BacktrackKeepsVisited ==
    /\ gpc = "search"
    /\ Len(stack) > 1
    /\ stack[Len(stack)] = <<>>
    /\ LET d == Len(stack)
           start == path[Len(path)]
       IN  /\ visited' = visited
           /\ path' = SubSeq(path, 1, Len(path) - 1)
           /\ grid' = grid \ {start}
           /\ stack' = [SubSeq(stack, 1, d - 1) EXCEPT ![d - 1] = Tail(@)]
    /\ UNCHANGED <<selVars, callVars, playVars>>
    /\ UNCHANGED <<gridSize, timeout, algorithm, optDotCount,
                   optMaxAttempts, optTimeout, attempt,
                   gpc, elapsed, failed, result>>

\* every neighbour failed: undo the cell and return false to the caller
Backtrack ==
    /\ gpc = "search"
    /\ Len(stack) > 1
    /\ stack[Len(stack)] = <<>>
    /\ LET d == Len(stack)
           start == path[Len(path)]
       IN  /\ visited' = visited \ {start}
           /\ path' = SubSeq(path, 1, Len(path) - 1)
           /\ grid' = grid \ {start}
           /\ stack' = [SubSeq(stack, 1, d - 1) EXCEPT ![d - 1] = Tail(@)]
    /\ UNCHANGED <<selVars, callVars, playVars>>
    /\ UNCHANGED <<gridSize, timeout, algorithm, optDotCount,
                   optMaxAttempts, optTimeout, attempt,
                   gpc, elapsed, failed, result>>

\* the failed attempt is run again: the loop variable does not advance
SearchFailedSameAttempt ==
    /\ gpc = "search"
    /\ stack = << <<>> >>
    /\ gpc' = "loop"
    /\ stack' = <<>>
    /\ UNCHANGED <<selVars, callVars, playVars>>
    /\ UNCHANGED <<gridSize, timeout, algorithm, optDotCount,
                   optMaxAttempts, optTimeout, path,
                   visited, grid, elapsed, result, attempt, failed>>

\* the outermost call returned false: attemptGeneration returns null
SearchFailed ==
    /\ gpc = "search"
    /\ stack = << <<>> >>
    /\ gpc' = "loop"
    /\ attempt' = attempt + 1
    /\ failed' = failed + 1
    /\ stack' = <<>>
    /\ UNCHANGED <<selVars, callVars, playVars>>
    /\ UNCHANGED <<gridSize, timeout, algorithm, optDotCount,
                   optMaxAttempts, optTimeout, path,
                   visited, grid, elapsed, result>>

\* what the rest of attemptGeneration yields once the path is found:
\* "throw" (selectDotPositions threw), "null" (candidate rejected) or a puzzle
AttemptOutcomes(n, p, opt) ==
    LET dotCount == DotCountOf(opt, n)
    IN  IF selectDotPositionsThrows(p, dotCount)
        THEN {[kind |-> "throw", puzzle |-> NoPuzzle]}
        ELSE { IF validatePuzzle(n, p, dots)
               THEN [kind |-> "puzzle",
                     puzzle |-> [gridSize |-> n, dots |-> dots,
                                 solutionPath |-> p]]
               ELSE [kind |-> "null", puzzle |-> NoPuzzle]
               : dots \in selectDotPositions(p, dotCount) }

\* the loop body without its catch clause: an error leaves generatePuzzle
LoopBodyNoCatch(out) ==
    IF out.kind = "puzzle"
    THEN /\ gpc' = "done"
         /\ result' = [kind |-> "returned", success |-> TRUE,
                       puzzle |-> out.puzzle, error |-> FALSE]
         /\ UNCHANGED <<attempt, failed>>
    ELSE IF out.kind = "throw"
    THEN /\ gpc' = "done"
         /\ result' = [kind |-> "thrown", success |-> FALSE,
                       puzzle |-> NoPuzzle, error |-> TRUE]
         /\ UNCHANGED <<attempt, failed>>
    ELSE /\ gpc' = "loop"
         /\ attempt' = attempt + 1
         /\ failed' = failed + 1
         /\ UNCHANGED result

\* how the loop body of generatePuzzle treats the outcome of an attempt
\* (try / catch around attemptGeneration)
LoopBody(out) ==
    IF out.kind = "puzzle"
    THEN /\ gpc' = "done"
         /\ result' = [kind |-> "returned", success |-> TRUE,
                       puzzle |-> out.puzzle, error |-> FALSE]
         /\ UNCHANGED <<attempt, failed>>
    ELSE \* null, or an error caught and logged
         /\ gpc' = "loop"
         /\ attempt' = attempt + 1
         /\ failed' = failed + 1
         /\ UNCHANGED result

\* the path is complete: select the dots, validate, return or retry
FinishAttempt ==
    /\ gpc = "found"
    /\ \E out \in AttemptOutcomes(gridSize, path, optDotCount) :
          LoopBody(out)
    /\ UNCHANGED <<selVars, callVars, playVars>>
    /\ UNCHANGED <<gridSize, timeout, algorithm, optDotCount,
                   optMaxAttempts, optTimeout, path,
                   visited, grid, stack, elapsed>>

(***************************************************************************)
(* One call of selectDotPositions, of either generator class.              *)
(***************************************************************************)
\* outcomes of Math.floor(Math.random() * (maxOffset + 1)) in
\* OptimizedPuzzleGenerator.optimizedRandomizeDotPositions
OptimizedJitterOffsets(minIndex, maxIndex) ==
    0..Min(2, (maxIndex - minIndex) \div 3)

RECURSIVE optimizedRandomizeDotPositions(_, _, _)
optimizedRandomizeDotPositions(p, dots, i) ==
    IF i >= Len(dots) - 1 THEN {dots}
    ELSE
      LET currentPathIndex == FindIndex(p, dots[i + 1].position)
          minIndex == IF i = 1 THEN 1
                      ELSE FindIndex(p, dots[i].position) + 1
          maxIndex == IF i = Len(dots) - 2 THEN Len(p) - 2
                      ELSE FindIndex(p, dots[i + 2].position) - 1
      IN  IF maxIndex > minIndex
          THEN UNION { optimizedRandomizeDotPositions(p,
                          [dots EXCEPT ![i + 1].position =
                              p[Min(currentPathIndex + off, maxIndex) + 1]],
                          i + 1) :
                       off \in OptimizedJitterOffsets(minIndex, maxIndex) }
          ELSE optimizedRandomizeDotPositions(p, dots, i + 1)

optimizedSelectDotPositions(p, dotCount) ==
    { SortByNumber(d) :
        d \in optimizedRandomizeDotPositions(p, EvenDots(p, dotCount), 1) }

SelectCall ==
    /\ selResult.kind = "none"
    /\ selPath # <<>>
    /\ IF selectDotPositionsThrows(selPath, selDotCount)
       THEN selResult' = [kind |-> "throw", dots |-> <<>>, even |-> <<>>]
       ELSE \E dots \in (IF selVariant = "standard"
                         THEN selectDotPositions(selPath, selDotCount)
                         ELSE optimizedSelectDotPositions(selPath, selDotCount)) :
               selResult' = [kind |-> "dots", dots |-> dots,
                             even |-> EvenDots(selPath, selDotCount)]
    /\ UNCHANGED <<selVariant, selPath, selDotCount>>
    /\ UNCHANGED <<genVars, callVars, playVars>>

\* the paths the call is studied on: the prefixes of a spiral
SelPaths ==
    { Slice(SimplePath(MaxN + 1), len) : len \in 1..MaxPathLen }

InitSel ==
    /\ GenIdle
    /\ CallIdle
    /\ PlayIdle
    /\ selVariant \in {"standard", "optimized"}
    /\ selPath \in SelPaths
    /\ selDotCount \in 0..(Len(selPath) + 1)
    /\ selResult = NoSelResult

NextSel == SelectCall

SpecSel == InitSel /\ [][NextSel]_vars

(***************************************************************************)
(* OptimizedPuzzleGenerator: one generatePuzzle call.  The loop, the clock, *)
(* the backtracking and the failure of an attempt are those of             *)
(* PuzzleGenerator; the start cell, the order of the neighbours and the    *)
(* dot selection are its own.                                              *)
(***************************************************************************)
Algorithms == {"probabilistic", "temperature", "smart-fallback"}

\* shuffleArray (Fisher-Yates): every order of the array
shuffleArray(array) ==
    { [i \in 1..Len(array) |-> array[f[i]]] :
        f \in Permutations(1..Len(array)) }

\* array.splice(i, 1), i counted from 1
Splice(array, i) ==
    [j \in 1..(Len(array) - 1) |-> IF j < i THEN array[j] ELSE array[j + 1]]

\* weightedRandomSort from one turn of its while loop on: every weight is
\* positive, so the draw can stop at any index of remaining; total is
\* scored.length.  (A draw that stops at no index repeats the turn.)
RECURSIVE weightedRandomSortFrom(_, _, _)
weightedRandomSortFrom(remaining, sorted, total) ==
    IF Len(remaining) = 0 THEN {sorted}
    ELSE UNION {
           LET pushed == Append(sorted, remaining[i])
               rest == Splice(remaining, i)
           IN  IF Len(rest) > 0 /\ Len(pushed) = total - Len(rest) - 1
               THEN \* the fallback for rounding errors
                    weightedRandomSortFrom(
                        SubSeq(rest, 1, Len(rest) - 1),
                        Append(pushed, rest[Len(rest)]), total)
               ELSE weightedRandomSortFrom(rest, pushed, total)
           : i \in 1..Len(remaining) }

weightedRandomSort(scored) == weightedRandomSortFrom(scored, <<>>, Len(scored))

\* only the candidate drawn first is handed to the search
getProbabilisticWarnsdorffNeighborsFirstDrawn(n, vis, pos) ==
    LET candidates == UnvisitedNeighbors(n, vis, pos)
    IN  IF Len(candidates) = 0 THEN {<<>>}
        ELSE { <<sorted[1]>> : sorted \in weightedRandomSort(candidates) }

getProbabilisticWarnsdorffNeighbors(n, vis, pos) ==
    LET candidates == UnvisitedNeighbors(n, vis, pos)
    IN  IF Len(candidates) = 0 THEN {<<>>}
        ELSE weightedRandomSort(candidates)

getRandomNeighbors(n, vis, pos) ==
    shuffleArray(UnvisitedNeighbors(n, vis, pos))

\* Math.random() < temperature can fall either way (0.2 < temperature <= 0.9)
getNeighborsWithTemperature(n, vis, pos) ==
    getRandomNeighbors(n, vis, pos)
        \cup getProbabilisticWarnsdorffNeighbors(n, vis, pos)

getSmartFallbackNeighbors(n, vis, pos) ==
    LET candidates == UnvisitedNeighbors(n, vis, pos)
    IN  IF Len(candidates) = 0 THEN {<<>>}
        ELSE IF Len(candidates) >= 3 THEN shuffleArray(candidates)
        ELSE getProbabilisticWarnsdorffNeighbors(n, vis, pos)

\* the switch on this.algorithm in generateOptimizedHamiltonianPath
OptimizedNeighbors(alg, n, vis, pos) ==
    IF alg = "temperature" THEN getNeighborsWithTemperature(n, vis, pos)
    ELSE IF alg = "smart-fallback" THEN getSmartFallbackNeighbors(n, vis, pos)
    ELSE getProbabilisticWarnsdorffNeighbors(n, vis, pos)

\* OptimizedPuzzleGenerator.getOptimalStartPosition: weightedRandomSelect
\* over the corners, the other edge cells and, from size 5 on, the centre,
\* all of positive weight
optimizedGetOptimalStartPosition(n) ==
    {Pos(0, 0), Pos(0, n - 1), Pos(n - 1, 0), Pos(n - 1, n - 1)}
    \cup UNION { {Pos(0, i), Pos(n - 1, i), Pos(i, 0), Pos(i, n - 1)} :
                   i \in 1..(n - 2) }
    \cup (IF n >= 5 THEN {Pos(n \div 2, n \div 2)} ELSE {})

\* attemptGeneration begins: reset, start time, start cell
OptStartAttempt ==
    /\ gpc = "loop"
    /\ attempt <= MaxAttemptsOf(optMaxAttempts)
    /\ \E start \in optimizedGetOptimalStartPosition(gridSize) :
          stack' = << <<start>> >>
    /\ path' = <<>>
    /\ visited' = {}
    /\ grid' = {}
    /\ elapsed' = 0
    /\ gpc' = "search"
    /\ UNCHANGED <<selVars, callVars, playVars>>
    /\ UNCHANGED <<gridSize, timeout, algorithm, optDotCount,
                   optMaxAttempts, optTimeout, attempt, failed, result>>

\* entry of generateOptimizedHamiltonianPath(pos) for the next pending
\* neighbour
OptEnterCall ==
    /\ gpc = "search"
    /\ stack[Len(stack)] # <<>>
    /\ LET d == Len(stack)
           pos == Head(stack[d])
       IN  IF isTimedOut \/ pos \in visited
           THEN \* return false at once
                /\ stack' = [stack EXCEPT ![d] = Tail(@)]
                /\ UNCHANGED <<path, visited, grid, gpc>>
           ELSE /\ visited' = visited \cup {pos}
                /\ path' = Append(path, pos)
                /\ grid' = grid \cup {pos}
                /\ IF Len(path') = gridSize * gridSize
                   THEN \* success: every caller returns true
                        /\ gpc' = "found"
                        /\ stack' = <<>>
                   ELSE /\ gpc' = gpc
                        /\ \E nb \in OptimizedNeighbors(
                                         algorithm, gridSize, visited', pos) :
                              stack' = Append(stack, nb)
    /\ UNCHANGED <<selVars, callVars, playVars>>
    /\ UNCHANGED <<gridSize, timeout, algorithm, optDotCount,
                   optMaxAttempts, optTimeout, attempt, elapsed, failed,
                   result>>

\* AttemptOutcomes with the dot selection of OptimizedPuzzleGenerator
OptAttemptOutcomes(n, p, opt) ==
    LET dotCount == DotCountOf(opt, n)
    IN  IF selectDotPositionsThrows(p, dotCount)
        THEN {[kind |-> "throw", puzzle |-> NoPuzzle]}
        ELSE { IF validatePuzzle(n, p, dots)
               THEN [kind |-> "puzzle",
                     puzzle |-> [gridSize |-> n, dots |-> dots,
                                 solutionPath |-> p]]
               ELSE [kind |-> "null", puzzle |-> NoPuzzle]
               : dots \in optimizedSelectDotPositions(p, dotCount) }

\* the path is complete: select the dots, validate, return or retry
OptFinishAttempt ==
    /\ gpc = "found"
    /\ \E out \in OptAttemptOutcomes(gridSize, path, optDotCount) :
          LoopBody(out)
    /\ UNCHANGED <<selVars, callVars, playVars>>
    /\ UNCHANGED <<gridSize, timeout, algorithm, optDotCount,
                   optMaxAttempts, optTimeout, path, visited, grid, stack,
                   elapsed>>

\* the grids the search with every order of the neighbours is explored
\* on: up to the smallest size the game offers
OptGridSizes == 1..minGridSize

InitOpt ==
    /\ gridSize \in OptGridSizes
    /\ timeout = generationTimeout
    /\ algorithm \in Algorithms
    /\ optDotCount = 0
    /\ optMaxAttempts \in 1..2
    /\ optTimeout = timeout
    /\ attempt = 1
    /\ gpc = "loop"
    /\ path = <<>>
    /\ visited = {}
    /\ grid = {}
    /\ stack = <<>>
    /\ elapsed = 0
    /\ failed = 0
    /\ result = NoResult
    /\ SelIdle
    /\ CallIdle
    /\ PlayIdle

NextOpt ==
    \/ OptStartAttempt
    \/ Exhausted
    \/ Tick
    \/ OptEnterCall
    \/ Backtrack
    \/ SearchFailed
    \/ OptFinishAttempt

SpecOpt == InitOpt /\ [][NextOpt]_vars

(***************************************************************************)
(* Calls of generateSimplePuzzle, validateSolution and the default dot     *)
(* count on given arguments.                                               *)
(***************************************************************************)
\* the walks of an n x n grid: sequences of distinct cells, each next to
\* the one before
RECURSIVE ExtendWalks(_, _, _)
ExtendWalks(n, ws, k) ==
    IF k = 0 \/ ws = {} THEN {}
    ELSE LET next ==
               UNION { { Append(w, c) :
                           c \in { d \in Cells(n) :
                                     /\ Abs(d.x - w[Len(w)].x)
                                          + Abs(d.y - w[Len(w)].y) = 1
                                     /\ d \notin Range(w) } } :
                       w \in ws }
         IN  next \cup ExtendWalks(n, next, k - 1)

Walks(n) ==
    LET one == { <<c>> : c \in Cells(n) }
    IN  {<<>>} \cup one \cup ExtendWalks(n, one, n * n - 1)

SimplePuzzleCall ==
    /\ callPuzzle = NoPuzzle
    /\ callPuzzle' = generateSimplePuzzle(callN)
    /\ UNCHANGED <<callN, callPath, callValidation, callDotCount,
                   callNextDot>>
    /\ UNCHANGED <<genVars, selVars, playVars>>

\* validateSolution on a walk of the puzzle's grid (grids up to the
\* smallest size of the game)
ValidateCall ==
    /\ callPuzzle # NoPuzzle
    /\ callValidation = NoValidation
    /\ callN <= minGridSize
    /\ \E p \in Walks(callN) :
          /\ callPath' = p
          /\ callValidation' = validateSolution(callPuzzle, p)
    /\ UNCHANGED <<callN, callPuzzle, callDotCount, callNextDot>>
    /\ UNCHANGED <<genVars, selVars, playVars>>

\* the dotCount of attemptGeneration when options.dotCount is not given
DotCountCall ==
    /\ callDotCount = 0
    /\ callDotCount' = DotCountOf(0, callN)
    /\ UNCHANGED <<callN, callPuzzle, callPath, callValidation, callNextDot>>
    /\ UNCHANGED <<genVars, selVars, playVars>>

\* getNextExpectedDot on the path that was handed to validateSolution
NextDotCall ==
    /\ callValidation # NoValidation
    /\ ~callNextDot.called
    /\ callNextDot' = [called |-> TRUE,
                       dot |-> getNextExpectedDot(callPuzzle, callPath)]
    /\ UNCHANGED <<callN, callPuzzle, callPath, callValidation, callDotCount>>
    /\ UNCHANGED <<genVars, selVars, playVars>>

InitCall ==
    /\ GenIdle
    /\ SelIdle
    /\ PlayIdle
    /\ callN \in 2..MaxGridN
    /\ callPuzzle = NoPuzzle
    /\ callPath = <<>>
    /\ callValidation = NoValidation
    /\ callDotCount = 0
    /\ callNextDot = NoNextDot

NextCall ==
    \/ SimplePuzzleCall
    \/ ValidateCall
    \/ DotCountCall
    \/ NextDotCall

SpecCall == InitCall /\ [][NextCall]_vars

(***************************************************************************)
(* Game and Grid: puzzle installation and the pointer handlers.            *)
(***************************************************************************)
\* Grid's disabled prop
disabled == gameMode # "playing"

\* getGridPosition on a pointer over cell (cx, cy); outside the grid: null
NoPosition == Pos(-1, -1)

getGridPosition(n, cx, cy) ==
    IF cx < 0 \/ cx >= n \/ cy < 0 \/ cy >= n THEN NoPosition
    ELSE Pos(cx, cy)

PointerCells(n) == {Pos(cx, cy) : cx \in -1..n, cy \in -1..n}

\* checkWinCondition accepting every path that fills the grid
checkWinConditionAnyFullPath(pz, p) ==
    LET totalCells == pz.gridSize * pz.gridSize
    IN  IF Len(p) = totalCells THEN TRUE ELSE FALSE

\* Game.checkWinCondition: does it call handleGameComplete?
checkWinCondition(pz, p) ==
    LET totalCells == pz.gridSize * pz.gridSize
        sortedDots == SortByNumber(pz.dots)
    IN  IF Len(p) = totalCells
        THEN LET inOrder == DotsInOrderFrom(p, sortedDots, 1, -1)
                 endsOnFinalDot ==
                     IF inOrder /\ Len(sortedDots) > 0
                     THEN p[Len(p)] = sortedDots[Len(sortedDots)].position
                     ELSE TRUE
             IN  inOrder /\ endsOnFinalDot
        ELSE FALSE

\* Game.handleGameComplete at time t
handleGameComplete(t) ==
    /\ isCompleted' = TRUE
    /\ endTime' = t
    /\ gameMode' = "completed"

\* Game.handlePathUpdate, called by the Grid as onPathUpdate
handlePathUpdate(newPath) ==
    LET setStart == startTime = NoTime /\ Len(newPath) > 0
        t == IF setStart THEN dateNow + 1 ELSE dateNow
    IN  /\ startTime' = IF setStart THEN t ELSE startTime
        /\ currentPath' = newPath
        /\ IF puzzle # NoPuzzle /\ Len(newPath) > 0
              /\ checkWinCondition(puzzle, newPath)
           THEN /\ handleGameComplete(t + 1)
                /\ dateNow' = t + 1
           ELSE /\ UNCHANGED <<isCompleted, gameMode, endTime>>
                /\ dateNow' = t

\* handleNewPuzzle leaving the drawn path in place
handleNewPuzzleKeepsPath ==
    /\ gameMode # "generating"
    /\ gameMode' = "generating"
    /\ puzzle' = NoPuzzle
    /\ currentPath' = currentPath
    /\ isCompleted' = FALSE
    /\ isDragging' = FALSE
    /\ dragPath' = <<>>
    /\ isGenerating' = TRUE
    /\ startTime' = NoTime
    /\ endTime' = NoTime
    /\ dateNow' = 0
    /\ lastEvent' = [type |-> "reset", cell |-> Pos(-1, -1),
                     before |-> currentPath, dragging |-> isDragging,
                     enabled |-> gameMode = "playing"]
    /\ UNCHANGED gameGridSize
    /\ UNCHANGED <<genVars, selVars, callVars>>

\* New Puzzle pressed: the state is cleared; with puzzle null the Grid is
\* unmounted and loses its drag state
handleNewPuzzle ==
    /\ gameMode # "generating"
    /\ gameMode' = "generating"
    /\ puzzle' = NoPuzzle
    /\ currentPath' = <<>>
    /\ isCompleted' = FALSE
    /\ isDragging' = FALSE
    /\ dragPath' = <<>>
    /\ isGenerating' = TRUE
    /\ startTime' = NoTime
    /\ endTime' = NoTime
    /\ dateNow' = 0
    /\ lastEvent' = [type |-> "reset", cell |-> Pos(-1, -1),
                     before |-> currentPath, dragging |-> isDragging,
                     enabled |-> gameMode = "playing"]
    /\ UNCHANGED gameGridSize
    /\ UNCHANGED <<genVars, selVars, callVars>>

\* the puzzles installed in the model: the spiral path with the dots that
\* selectDotPositions can choose, and the generateSimplePuzzle fallback
PuzzlePool(n) ==
    { [gridSize |-> n, dots |-> d, solutionPath |-> SimplePath(n)] :
        d \in selectDotPositions(SimplePath(n), DefaultDotCount(n)) }
    \cup {generateSimplePuzzle(n)}

\* generation ended: the puzzle is installed and play begins
InstallPuzzle ==
    /\ gameMode = "generating"
    /\ \E pz \in PuzzlePool(gameGridSize) : puzzle' = pz
    /\ gameMode' = "playing"
    /\ isGenerating' = FALSE
    /\ UNCHANGED <<gameGridSize, currentPath, isCompleted, isDragging,
                   dragPath, timeVars, lastEvent>>
    /\ UNCHANGED <<genVars, selVars, callVars>>

\* record of a pointer event: its cell and the session it arrived in
Event(type, cell) ==
    [type |-> type, cell |-> cell, before |-> currentPath,
     dragging |-> isDragging, enabled |-> ~disabled]

\* handleMouseDown resuming from any cell of the path
handleMouseDownAnyPathCell(cell) ==
    /\ puzzle # NoPuzzle
    /\ lastEvent' = Event("down", cell)
    /\ LET position == getGridPosition(puzzle.gridSize, cell.x, cell.y)
           startDot == DotAt(puzzle, position)
           pathIndex == FindIndex(currentPath, position)
       IN  IF disabled \/ position = NoPosition
           THEN UNCHANGED <<currentPath, isCompleted, gameMode, isDragging,
                            dragPath, timeVars>>
           ELSE IF startDot # NoDot /\ startDot.number = 1
                   /\ Len(currentPath) = 0
           THEN \* starting a new path from dot 1
                /\ isDragging' = TRUE
                /\ dragPath' = <<position>>
                /\ handlePathUpdate(<<position>>)
           ELSE IF pathIndex # -1
           THEN \* resume from this point in the path
                /\ isDragging' = TRUE
                /\ dragPath' = Slice(currentPath, pathIndex + 1)
                /\ handlePathUpdate(Slice(currentPath, pathIndex + 1))
           ELSE UNCHANGED <<currentPath, isCompleted, gameMode, isDragging,
                            dragPath, timeVars>>
    /\ UNCHANGED <<gameGridSize, puzzle, isGenerating>>
    /\ UNCHANGED <<genVars, selVars, callVars>>

\* handleMouseDown starting a path from any dot
handleMouseDownAnyDot(cell) ==
    /\ puzzle # NoPuzzle
    /\ lastEvent' = Event("down", cell)
    /\ LET position == getGridPosition(puzzle.gridSize, cell.x, cell.y)
           startDot == DotAt(puzzle, position)
           pathIndex == FindIndex(currentPath, position)
       IN  IF disabled \/ position = NoPosition
           THEN UNCHANGED <<currentPath, isCompleted, gameMode, isDragging,
                            dragPath, timeVars>>
           ELSE IF startDot # NoDot /\ Len(currentPath) = 0
           THEN \* starting a new path from dot 1
                /\ isDragging' = TRUE
                /\ dragPath' = <<position>>
                /\ handlePathUpdate(<<position>>)
           ELSE IF pathIndex # -1
                   /\ canBacktrackToPosition(puzzle, currentPath, position,
                                             currentPath[Len(currentPath)])
           THEN \* resume from this point in the path
                /\ isDragging' = TRUE
                /\ dragPath' = Slice(currentPath, pathIndex + 1)
                /\ handlePathUpdate(Slice(currentPath, pathIndex + 1))
           ELSE UNCHANGED <<currentPath, isCompleted, gameMode, isDragging,
                            dragPath, timeVars>>
    /\ UNCHANGED <<gameGridSize, puzzle, isGenerating>>
    /\ UNCHANGED <<genVars, selVars, callVars>>

handleMouseDown(cell) ==
    /\ puzzle # NoPuzzle
    /\ lastEvent' = Event("down", cell)
    /\ LET position == getGridPosition(puzzle.gridSize, cell.x, cell.y)
           startDot == DotAt(puzzle, position)
           pathIndex == FindIndex(currentPath, position)
       IN  IF disabled \/ position = NoPosition
           THEN UNCHANGED <<currentPath, isCompleted, gameMode, isDragging,
                            dragPath, timeVars>>
           ELSE IF startDot # NoDot /\ startDot.number = 1
                   /\ Len(currentPath) = 0
           THEN \* starting a new path from dot 1
                /\ isDragging' = TRUE
                /\ dragPath' = <<position>>
                /\ handlePathUpdate(<<position>>)
           ELSE IF pathIndex # -1
                   /\ canBacktrackToPosition(puzzle, currentPath, position,
                                             currentPath[Len(currentPath)])
           THEN \* resume from this point in the path
                /\ isDragging' = TRUE
                /\ dragPath' = Slice(currentPath, pathIndex + 1)
                /\ handlePathUpdate(Slice(currentPath, pathIndex + 1))
           ELSE UNCHANGED <<currentPath, isCompleted, gameMode, isDragging,
                            dragPath, timeVars>>
    /\ UNCHANGED <<gameGridSize, puzzle, isGenerating>>
    /\ UNCHANGED <<genVars, selVars, callVars>>

\* handleMouseMove without the isValidMove test
handleMouseMoveAnyCell(cell) ==
    /\ puzzle # NoPuzzle
    /\ lastEvent' = Event("move", cell)
    /\ LET position == getGridPosition(puzzle.gridSize, cell.x, cell.y)
           lastPosition == dragPath[Len(dragPath)]
           pathIndex == FindIndex(dragPath, position)
       IN  IF ~isDragging
           THEN UNCHANGED <<currentPath, isCompleted, gameMode, dragPath,
                            timeVars>>
           ELSE IF disabled \/ position = NoPosition
           THEN UNCHANGED <<currentPath, isCompleted, gameMode, dragPath,
                            timeVars>>
           ELSE IF position = lastPosition
           THEN UNCHANGED <<currentPath, isCompleted, gameMode, dragPath,
                            timeVars>>
           ELSE IF pathIndex # -1
           THEN IF canBacktrackToPosition(puzzle, dragPath, position,
                                          lastPosition)
                THEN \* going backwards: trim the path
                     /\ dragPath' = Slice(dragPath, pathIndex + 1)
                     /\ handlePathUpdate(Slice(dragPath, pathIndex + 1))
                ELSE UNCHANGED <<currentPath, isCompleted, gameMode,
                                 dragPath, timeVars>>
           ELSE \* going forward: add to the path
                /\ dragPath' = Append(dragPath, position)
                /\ handlePathUpdate(Append(dragPath, position))
    /\ UNCHANGED <<gameGridSize, puzzle, isDragging, isGenerating>>
    /\ UNCHANGED <<genVars, selVars, callVars>>

\* handleMouseMove without the disabled guard
handleMouseMoveWhenDisabled(cell) ==
    /\ puzzle # NoPuzzle
    /\ lastEvent' = Event("move", cell)
    /\ LET position == getGridPosition(puzzle.gridSize, cell.x, cell.y)
           lastPosition == dragPath[Len(dragPath)]
           pathIndex == FindIndex(dragPath, position)
       IN  IF ~isDragging
           THEN UNCHANGED <<currentPath, isCompleted, gameMode, dragPath,
                            timeVars>>
           ELSE IF position = NoPosition
           THEN UNCHANGED <<currentPath, isCompleted, gameMode, dragPath,
                            timeVars>>
           ELSE IF position = lastPosition
           THEN UNCHANGED <<currentPath, isCompleted, gameMode, dragPath,
                            timeVars>>
           ELSE IF ~isValidMove(puzzle, lastPosition, position)
           THEN UNCHANGED <<currentPath, isCompleted, gameMode, dragPath,
                            timeVars>>
           ELSE IF pathIndex # -1
           THEN IF canBacktrackToPosition(puzzle, dragPath, position,
                                          lastPosition)
                THEN \* going backwards: trim the path
                     /\ dragPath' = Slice(dragPath, pathIndex + 1)
                     /\ handlePathUpdate(Slice(dragPath, pathIndex + 1))
                ELSE UNCHANGED <<currentPath, isCompleted, gameMode,
                                 dragPath, timeVars>>
           ELSE \* going forward: add to the path
                /\ dragPath' = Append(dragPath, position)
                /\ handlePathUpdate(Append(dragPath, position))
    /\ UNCHANGED <<gameGridSize, puzzle, isDragging, isGenerating>>
    /\ UNCHANGED <<genVars, selVars, callVars>>

\* (a move without a drag only updates the hover highlight)
handleMouseMove(cell) ==
    /\ puzzle # NoPuzzle
    /\ lastEvent' = Event("move", cell)
    /\ LET position == getGridPosition(puzzle.gridSize, cell.x, cell.y)
           lastPosition == dragPath[Len(dragPath)]
           pathIndex == FindIndex(dragPath, position)
       IN  IF ~isDragging
           THEN UNCHANGED <<currentPath, isCompleted, gameMode, dragPath,
                            timeVars>>
           ELSE IF disabled \/ position = NoPosition
           THEN UNCHANGED <<currentPath, isCompleted, gameMode, dragPath,
                            timeVars>>
           ELSE IF position = lastPosition
           THEN UNCHANGED <<currentPath, isCompleted, gameMode, dragPath,
                            timeVars>>
           ELSE IF ~isValidMove(puzzle, lastPosition, position)
           THEN UNCHANGED <<currentPath, isCompleted, gameMode, dragPath,
                            timeVars>>
           ELSE IF pathIndex # -1
           THEN IF canBacktrackToPosition(puzzle, dragPath, position,
                                          lastPosition)
                THEN \* going backwards: trim the path
                     /\ dragPath' = Slice(dragPath, pathIndex + 1)
                     /\ handlePathUpdate(Slice(dragPath, pathIndex + 1))
                ELSE UNCHANGED <<currentPath, isCompleted, gameMode,
                                 dragPath, timeVars>>
           ELSE \* going forward: add to the path
                /\ dragPath' = Append(dragPath, position)
                /\ handlePathUpdate(Append(dragPath, position))
    /\ UNCHANGED <<gameGridSize, puzzle, isDragging, isGenerating>>
    /\ UNCHANGED <<genVars, selVars, callVars>>

\* also run on mouseleave and touchend
handleMouseUp ==
    /\ puzzle # NoPuzzle
    /\ lastEvent' = Event("up", NoPosition)
    /\ IF ~isDragging
       THEN UNCHANGED <<isCompleted, gameMode, isDragging, dragPath,
                        timeVars>>
       ELSE /\ isDragging' = FALSE
            /\ dragPath' = <<>>
            /\ LET validation == validateSolution(puzzle, currentPath)
               IN  IF validation.isValid /\ validation.isComplete
                   THEN \* onComplete
                        /\ handleGameComplete(dateNow + 1)
                        /\ dateNow' = dateNow + 1
                        /\ UNCHANGED startTime
                   ELSE UNCHANGED <<isCompleted, gameMode, timeVars>>
    /\ UNCHANGED <<gameGridSize, puzzle, currentPath, isGenerating>>
    /\ UNCHANGED <<genVars, selVars, callVars>>

InitPlay ==
    /\ GenIdle
    /\ SelIdle
    /\ CallIdle
    /\ PlayIdle

NextPlay ==
    \/ handleNewPuzzle
    \/ InstallPuzzle
    \/ \E cell \in PointerCells(gameGridSize) : handleMouseDown(cell)
    \/ \E cell \in PointerCells(gameGridSize) : handleMouseMove(cell)
    \/ handleMouseUp

SpecPlay == InitPlay /\ [][NextPlay]_vars

(***************************************************************************)
(* Specification of the generator.                                         *)
(***************************************************************************)
GridSizes == 1..MaxN

InitGen ==
    /\ gridSize \in GridSizes
    /\ timeout = generationTimeout
    /\ algorithm = "none"
    /\ optDotCount \in 0..(gridSize * gridSize + 1)
    /\ optMaxAttempts \in 0..2
    /\ optTimeout = timeout
    /\ attempt = 1
    /\ gpc = "loop"
    /\ path = <<>>
    /\ visited = {}
    /\ grid = {}
    /\ stack = <<>>
    /\ elapsed = 0
    /\ failed = 0
    /\ result = NoResult
    /\ SelIdle
    /\ CallIdle
    /\ PlayIdle

NextGen ==
    \/ StartAttempt
    \/ Exhausted
    \/ Tick
    \/ EnterCall
    \/ Backtrack
    \/ SearchFailed
    \/ FinishAttempt

SpecGen == InitGen /\ [][NextGen]_vars

\* generatePuzzle runs to its end once called: every step of the loop and
\* of the search is taken when it is due; the clock need not advance
GenStep ==
    \/ StartAttempt
    \/ Exhausted
    \/ EnterCall
    \/ Backtrack
    \/ SearchFailed
    \/ FinishAttempt

FairGen == WF_vars(GenStep)

\* the calls the termination argument is checked on: every grid size, with
\* options.dotCount 2 (the first and the last cell, which no jitter moves) or
\* a count that selectDotPositions rejects (so that every attempt fails),
\* and with one or two attempts
InitGenFair ==
    /\ InitGen
    /\ optDotCount \in {2, gridSize * gridSize + 1}
    /\ optMaxAttempts \in 1..2

SpecGenFair == InitGenFair /\ [][NextGen]_vars /\ FairGen

(***************************************************************************)
(* Game.handleNewPuzzle after its state reset: the awaited generator       *)
(* calls and what is installed when they return.  The generator object of  *)
(* each call is the one of the generator specification; gpc = "idle" says  *)
(* that no call is outstanding.                                            *)
(***************************************************************************)
FastMaxAttempts == 3
StandardMaxAttempts == 5

\* timeout: Math.min(TIMING_CONFIG.generationTimeout, 3000)
FastTimeout == Min(generationTimeout, 3000)

\* new PuzzleGenerator({ gridSize }) and generatePuzzle(options) entered:
\* the constructor is given no timeout and takes the configured one; the
\* dot count passed is the default for the grid size
CallGenerator(maxAttempts, optionsTimeout) ==
    /\ gridSize' = gameGridSize
    /\ timeout' = generationTimeout
    /\ algorithm' = "none"
    /\ optDotCount' = DefaultDotCount(gameGridSize)
    /\ optMaxAttempts' = maxAttempts
    /\ optTimeout' = optionsTimeout
    /\ attempt' = 1
    /\ gpc' = "loop"
    /\ path' = <<>>
    /\ visited' = {}
    /\ grid' = {}
    /\ stack' = <<>>
    /\ elapsed' = 0
    /\ failed' = 0
    /\ result' = NoResult

\* generateSimplePuzzle on the grid sizes the game has in the model,
\* tabulated
GameSimplePuzzle == [n \in {minGridSize} |-> generateSimplePuzzle(n)]

\* setGameState({ puzzle, isGenerating: false }); setGameMode('playing')
InstallResult(pz) ==
    /\ puzzle' = pz
    /\ isGenerating' = FALSE
    /\ gameMode' = "playing"
    /\ gpc' = "idle"
    /\ UNCHANGED <<gridSize, timeout, algorithm, optDotCount,
                   optMaxAttempts, optTimeout, attempt,
                   path, visited, grid, stack, elapsed, failed, result>>

\* await generateFastZipPuzzle(gameState.gridSize) is entered
CallFast ==
    /\ gameMode = "generating"
    /\ gpc = "idle"
    /\ CallGenerator(FastMaxAttempts, FastTimeout)
    /\ UNCHANGED <<selVars, callVars, playVars>>

\* the fast call returned: install its puzzle, or enter
\* await generateZipPuzzle(gameState.gridSize)
FastReturned ==
    /\ gameMode = "generating"
    /\ gpc = "done"
    /\ optMaxAttempts = FastMaxAttempts
    /\ IF result.success /\ result.puzzle # NoPuzzle
       THEN InstallResult(result.puzzle)
       ELSE /\ CallGenerator(StandardMaxAttempts, generationTimeout)
            /\ UNCHANGED <<puzzle, isGenerating, gameMode>>
    /\ UNCHANGED <<gameGridSize, currentPath, isCompleted, isDragging,
                   dragPath, timeVars, lastEvent>>
    /\ UNCHANGED <<selVars, callVars>>

\* the standard call returned and its failure is ignored: play begins
\* with whatever puzzle the result carries
StandardReturnedNoFallback ==
    /\ gameMode = "generating"
    /\ gpc = "done"
    /\ optMaxAttempts = StandardMaxAttempts
    /\ InstallResult(result.puzzle)
    /\ UNCHANGED <<gameGridSize, currentPath, isCompleted, isDragging,
                   dragPath, timeVars, lastEvent>>
    /\ UNCHANGED <<selVars, callVars>>

\* the standard call returned: install its puzzle, or the puzzle of
\* generateSimplePuzzle(gameState.gridSize)
StandardReturned ==
    /\ gameMode = "generating"
    /\ gpc = "done"
    /\ optMaxAttempts = StandardMaxAttempts
    /\ IF result.success /\ result.puzzle # NoPuzzle
       THEN InstallResult(result.puzzle)
       ELSE InstallResult(GameSimplePuzzle[gameGridSize])
    /\ UNCHANGED <<gameGridSize, currentPath, isCompleted, isDragging,
                   dragPath, timeVars, lastEvent>>
    /\ UNCHANGED <<selVars, callVars>>

\* the generator runs only inside a call made by handleNewPuzzle
InitNew == InitPlay

NextNew ==
    \/ handleNewPuzzle
    \/ CallFast
    \/ FastReturned
    \/ StandardReturned
    \/ StartAttempt
    \/ Exhausted
    \/ Tick
    \/ EnterCall
    \/ Backtrack
    \/ SearchFailed
    \/ FinishAttempt

\* the steps of the handler after its state reset, those of the generator
\* it awaits included: one sequential computation
NewStep ==
    \/ CallFast
    \/ FastReturned
    \/ StandardReturned
    \/ GenStep

\* the async handler is resumed whenever one of its awaits settles, and the
\* generator runs to its end once called; the user need not press New
\* Puzzle and the clock need not advance
FairNew == WF_vars(NewStep)

SpecNew == InitNew /\ [][NextNew]_vars /\ FairNew

(***************************************************************************)
(* Properties of the generator.                                            *)
(***************************************************************************)
Manhattan(a, b) == Abs(a.x - b.x) + Abs(a.y - b.y)

\* the dot with the greatest number of a non-empty dot list
HighestDot(dots) ==
    dots[CHOOSE k \in 1..Len(dots) :
            \A j \in 1..Len(dots) : dots[j].number <= dots[k].number]

\* C1: every puzzle returned with success=true has a solutionPath of
\* exactly N*N cells, all inside the grid and pairwise distinct, every
\* consecutive pair at Manhattan distance 1, starting on checkpoint 1 and
\* ending on the highest-numbered checkpoint.
C1_SolutionPathIsHamiltonian ==
    result.success =>
        LET p == result.puzzle.solutionPath
            dots == result.puzzle.dots
        IN  /\ Len(p) = gridSize * gridSize
            /\ \A i \in 1..Len(p) : p[i] \in Cells(gridSize)
            /\ \A i \in 1..Len(p) : \A j \in 1..Len(p) : i # j => p[i] # p[j]
            /\ \A i \in 2..Len(p) : Manhattan(p[i - 1], p[i]) = 1
            /\ \E k \in 1..Len(dots) :
                  dots[k].number = 1 /\ dots[k].position = p[1]
            /\ HighestDot(dots).position = p[Len(p)]

C1_Witness ==
    /\ result.success
    /\ Len(result.puzzle.solutionPath) = 9
    /\ Len(result.puzzle.dots) = 4

\* C2: validateSolution applied to the solutionPath of a generated puzzle
\* returns isValid and isComplete with an empty error list.
C2_SolutionPathValidates ==
    result.success =>
        LET v == validateSolution(result.puzzle, result.puzzle.solutionPath)
        IN  v.isValid /\ v.isComplete /\ v.errors = <<>>

C2_Witness ==
    /\ result.success
    /\ Len(result.puzzle.dots) >= 3
    /\ validateSolution(result.puzzle, result.puzzle.solutionPath).isValid

\* C5: attempts run one after another, never more than maxAttempts of
\* them; the call ends at the first accepted candidate, and it reports
\* exhaustion (success=false, no puzzle, an error message, nothing thrown)
\* exactly when maxAttempts attempts failed in a row.
C5_RetryLoop ==
    LET max == MaxAttemptsOf(optMaxAttempts)
    IN  /\ gpc \in {"search", "found"} =>
              attempt <= max /\ failed = attempt - 1
        /\ failed <= max
        /\ result.kind # "thrown"
        /\ gpc = "done" =>
              /\ result.kind = "returned"
              /\ result.success <=> failed < max
              /\ result.success => failed = attempt - 1 /\ attempt <= max
              /\ ~result.success <=> failed = max
              /\ ~result.success =>
                    result.puzzle = NoPuzzle /\ result.error
              /\ result.success =>
                    result.puzzle # NoPuzzle /\ ~result.error

\* exhaustion after ten attempts that all ran out of time
C5_Witness ==
    /\ gpc = "done"
    /\ ~result.success
    /\ failed = DefaultMaxAttempts
    /\ optDotCount = 0
    /\ gridSize = 3

\* C17: once the elapsed time of an attempt exceeds its timeout the search
\* adds no cell to the path or to the visited set: every call entered
\* after the deadline returns failure at once, the search unwinds, and the
\* attempt ends as an ordinary failed attempt, without an error; with the
\* deadline passed at the first call no cell is explored.
C17_NoExplorationAfterDeadline ==
    [][(gpc = "search" /\ isTimedOut) =>
          /\ Len(path') <= Len(path)
          /\ visited' \subseteq visited
          /\ grid' \subseteq grid
          /\ gpc' \in {"search", "loop"}
          /\ result' = result
          /\ gpc' = "loop" =>
                failed' = failed + 1 /\ attempt' = attempt + 1]_vars

\* the deadline had passed at the first call: it returned at once and no
\* cell was explored
C17_Witness ==
    /\ gpc = "search"
    /\ isTimedOut
    /\ stack = << <<>> >>
    /\ path = <<>>
    /\ visited = {}

\* C18: generation terminates on the 1x1 and 2x2 grids and on every
\* bounded N: the recursion is never deeper than N*N calls, no cell is
\* entered twice on one branch, and generatePuzzle returns a result after
\* finitely many steps even if the deadline never fires.
C18_GenerationTerminates ==
    /\ [](gpc \in {"search", "found"} =>
            /\ Len(path) <= gridSize * gridSize
            /\ Len(stack) <= gridSize * gridSize + 1
            /\ gpc = "search" => Len(stack) = Len(path) + 1
            /\ \A i \in 1..Len(path) : \A j \in 1..Len(path) :
                  i # j => path[i] # path[j]
            /\ visited = Range(path))
    /\ <>(gpc = "done" /\ result.kind = "returned")

\* the call on the 1x1 grid returned with the clock never advanced
C18_Witness ==
    /\ gridSize = 1
    /\ gpc = "done"
    /\ result.kind = "returned"
    /\ ~result.success
    /\ elapsed = 0
    /\ failed = optMaxAttempts

(***************************************************************************)
(* Properties of selectDotPositions.                                       *)
(***************************************************************************)
\* C3: for dotCount in 2..L the call returns exactly dotCount checkpoints
\* numbered 1..dotCount, at pairwise distinct positions, with path indices
\* strictly increasing in the number, the first at path[0] and the last
\* at path[L-1], whatever the jitter draws.
C3_SelectedDotsAreOrdered ==
    (selResult.kind # "none" /\ selDotCount >= 2
        /\ selDotCount <= Len(selPath)) =>
        LET dots == selResult.dots
        IN  /\ selResult.kind = "dots"
            /\ Len(dots) = selDotCount
            /\ \A k \in 1..Len(dots) : dots[k].number = k
            /\ \A k \in 1..Len(dots) : \A j \in 1..Len(dots) :
                  k # j => dots[k].position # dots[j].position
            /\ \A k \in 1..(Len(dots) - 1) :
                  /\ FindIndex(selPath, dots[k].position) # -1
                  /\ FindIndex(selPath, dots[k].position)
                       < FindIndex(selPath, dots[k + 1].position)
            /\ dots[1].position = selPath[1]
            /\ dots[Len(dots)].position = selPath[Len(selPath)]

\* a call whose jitter moved a middle dot off its even position
C3_Witness ==
    /\ selResult.kind = "dots"
    /\ selDotCount >= 4
    /\ selResult.dots # EvenDots(selPath, selDotCount)

\* C4: the call fails with the invalid-dot-count error exactly when
\* dotCount < 2 or dotCount > path length, and then yields no checkpoint
\* list; for dotCount in 2..L it does not fail.
C4_InvalidDotCount ==
    selResult.kind # "none" =>
        /\ selResult.kind = "throw" <=>
              (selDotCount < 2 \/ selDotCount > Len(selPath))
        /\ selResult.kind = "throw" => selResult.dots = <<>>
        /\ selResult.kind = "dots" => Len(selResult.dots) >= 2

C4_Witness ==
    /\ selResult.kind = "throw"
    /\ selDotCount = 1
    /\ Len(selPath) >= 2

(***************************************************************************)
(* Properties of the drawing session.                                      *)
(***************************************************************************)
PathHead(p) == p[Len(p)]

OnPath(p, pos) == \E i \in 1..Len(p) : p[i] = pos

HasNumber(pz, num) == \E k \in 1..Len(pz.dots) : pz.dots[k].number = num

NumberedPos(pz, num) ==
    pz.dots[CHOOSE k \in 1..Len(pz.dots) : pz.dots[k].number = num].position

IsDotCell(pz, pos) == \E k \in 1..Len(pz.dots) : pz.dots[k].position = pos

NumberAt(pz, pos) ==
    pz.dots[CHOOSE k \in 1..Len(pz.dots) : pz.dots[k].position = pos].number

\* how many checkpoints 1, 2, ... lie on the path before the first absent one
SatisfiedCount(pz, p) ==
    CHOOSE k \in 0..Len(pz.dots) :
        /\ \A j \in 1..k : HasNumber(pz, j) /\ OnPath(p, NumberedPos(pz, j))
        /\ ~(HasNumber(pz, k + 1) /\ OnPath(p, NumberedPos(pz, k + 1)))

SetMax(S) == CHOOSE m \in S : \A o \in S : o <= m

\* path index of the highest-numbered checkpoint before the scan stops
HighestSatisfiedIndex(pz, p) ==
    LET k == SatisfiedCount(pz, p)
    IN  IF k = 0 THEN -1 ELSE FindIndex(p, NumberedPos(pz, k))

\* greatest path index of a checkpoint met before the scan stops
LatestSatisfiedIndex(pz, p) ==
    LET k == SatisfiedCount(pz, p)
    IN  IF k = 0 THEN -1
        ELSE SetMax({FindIndex(p, NumberedPos(pz, j)) : j \in 1..k})

HeadOffDot ==
    /\ puzzle # NoPuzzle
    /\ currentPath # <<>>
    /\ ~IsDotCell(puzzle, PathHead(currentPath))

HeadOnDot ==
    /\ puzzle # NoPuzzle
    /\ currentPath # <<>>
    /\ IsDotCell(puzzle, PathHead(currentPath))

\* the scenario 1,A,B,C,2,D,E,F: checkpoint 1 at index 0, checkpoint 2 at
\* index 4, head F off the checkpoints
ScenarioPuzzle ==
    [gridSize |-> 3, dots |-> EvenDots(SimplePath(3), 3),
     solutionPath |-> SimplePath(3)]

ScenarioPath == Slice(SimplePath(3), 8)

ScenarioHolds ==
    /\ FindIndex(ScenarioPath, NumberedPos(ScenarioPuzzle, 1)) = 0
    /\ FindIndex(ScenarioPath, NumberedPos(ScenarioPuzzle, 2)) = 4
    /\ ~IsDotCell(ScenarioPuzzle, ScenarioPath[8])
    /\ ~canBacktrackToPosition(ScenarioPuzzle, ScenarioPath,
                               ScenarioPath[2], ScenarioPath[8])
    /\ canBacktrackToPosition(ScenarioPuzzle, ScenarioPath,
                              ScenarioPath[6], ScenarioPath[8])
    /\ canBacktrackToPosition(ScenarioPuzzle, ScenarioPath,
                              ScenarioPath[5], ScenarioPath[8])

\* C6 as stated: with the head off the checkpoints, a cell of the path is
\* a legal backtrack target iff its index is at least the index of the
\* highest-numbered checkpoint found before the scan stops.
C6_ScopeIsHighestNumbered ==
    HeadOffDot =>
        \A i \in 1..Len(currentPath) :
            canBacktrackToPosition(puzzle, currentPath, currentPath[i],
                                   PathHead(currentPath))
            <=> i - 1 >= HighestSatisfiedIndex(puzzle, currentPath)

\* C6 amended: with the head off the checkpoints, a cell of the path is a
\* legal backtrack target iff its index is at least the greatest path
\* index of the checkpoints found before the scan stops (every cell when
\* none is found); in the scenario 1,A,B,C,2,D,E,F with head F, A is
\* illegal, D and checkpoint 2 are legal.
C6_ScopeIsLatestOnPath ==
    /\ HeadOffDot =>
          \A i \in 1..Len(currentPath) :
              canBacktrackToPosition(puzzle, currentPath, currentPath[i],
                                     PathHead(currentPath))
              <=> i - 1 >= LatestSatisfiedIndex(puzzle, currentPath)
    /\ ScenarioHolds

\* head off the checkpoints, checkpoint 3 drawn before checkpoint 2
C6_Witness ==
    /\ HeadOffDot
    /\ SatisfiedCount(puzzle, currentPath) >= 3
    /\ HighestSatisfiedIndex(puzzle, currentPath)
         < LatestSatisfiedIndex(puzzle, currentPath)
    /\ ~canBacktrackToPosition(puzzle, currentPath,
            currentPath[LatestSatisfiedIndex(puzzle, currentPath)],
            PathHead(currentPath))

\* C7: with the head on checkpoint C, a cell of the path is a legal
\* backtrack target iff its index is at least the index of checkpoint
\* C-1; every cell is legal when C is checkpoint 1 or checkpoint C-1 is
\* not on the path.
C7_ScopeOnCheckpoint ==
    HeadOnDot =>
        LET c == NumberAt(puzzle, PathHead(currentPath))
            open == c = 1 \/ ~HasNumber(puzzle, c - 1)
                    \/ ~OnPath(currentPath, NumberedPos(puzzle, c - 1))
        IN  \A i \in 1..Len(currentPath) :
                canBacktrackToPosition(puzzle, currentPath, currentPath[i],
                                       PathHead(currentPath))
                <=> (open \/ i - 1 >= FindIndex(currentPath,
                                                NumberedPos(puzzle, c - 1)))

\* head on checkpoint 3, checkpoint 2 behind it and the start out of reach
C7_Witness ==
    /\ HeadOnDot
    /\ NumberAt(puzzle, PathHead(currentPath)) = 3
    /\ OnPath(currentPath, NumberedPos(puzzle, 2))
    /\ FindIndex(currentPath, NumberedPos(puzzle, 2)) >= 2
    /\ ~canBacktrackToPosition(puzzle, currentPath, currentPath[1],
                               PathHead(currentPath))
    /\ canBacktrackToPosition(puzzle, currentPath,
                              NumberedPos(puzzle, 2), PathHead(currentPath))

\* the scope rule of the session, stated on a path p and a cell of it
ScopeFloor(pz, p) ==
    IF IsDotCell(pz, PathHead(p))
    THEN LET c == NumberAt(pz, PathHead(p))
         IN  IF c = 1 \/ ~HasNumber(pz, c - 1) THEN -1
             ELSE FindIndex(p, NumberedPos(pz, c - 1))
    ELSE LatestSatisfiedIndex(pz, p)

BacktrackLegal(pz, p, pos) ==
    OnPath(p, pos) /\ FindIndex(p, pos) >= ScopeFloor(pz, p)

\* a backtrack request: a press while a path exists, or a drag onto a
\* neighbouring cell that is already on the path
IsBacktrackPress ==
    lastEvent.type = "down" /\ lastEvent.enabled /\ lastEvent.before # <<>>
    /\ lastEvent.cell \in Cells(puzzle.gridSize)

IsBacktrackDrag ==
    /\ lastEvent.type = "move" /\ lastEvent.enabled /\ lastEvent.dragging
    /\ OnPath(lastEvent.before, lastEvent.cell)
    /\ Manhattan(PathHead(lastEvent.before), lastEvent.cell) = 1

\* C8: a backtrack to a cell that is not on the path, or that the scope
\* rule forbids, leaves currentPath as it was; a legal one replaces
\* currentPath by its prefix ending at the target, and the session keeps
\* no copy of the discarded cells.
C8_BacktrackTruncates ==
    /\ isDragging => dragPath = currentPath
    /\ ~isDragging => dragPath = <<>>
    /\ (IsBacktrackPress \/ IsBacktrackDrag) =>
          IF BacktrackLegal(puzzle, lastEvent.before, lastEvent.cell)
          THEN /\ currentPath =
                    Slice(lastEvent.before,
                          FindIndex(lastEvent.before, lastEvent.cell) + 1)
               /\ PathHead(currentPath) = lastEvent.cell
               /\ isDragging /\ dragPath = currentPath
          ELSE currentPath = lastEvent.before

\* a press that cut at least two cells off the path
C8_Witness ==
    /\ IsBacktrackPress
    /\ BacktrackLegal(puzzle, lastEvent.before, lastEvent.cell)
    /\ Len(currentPath) >= 2
    /\ Len(currentPath) + 2 <= Len(lastEvent.before)
    /\ currentPath = Slice(lastEvent.before, Len(currentPath))

IsDrawingMove ==
    lastEvent.type = "move" /\ lastEvent.enabled /\ lastEvent.dragging

\* C9: while a path is drawn, a move to a cell appends it iff the cell is
\* inside the grid, orthogonally adjacent to the last cell and not on the
\* path; a move to a non-adjacent cell leaves currentPath unchanged.
C9_ExtendOnlyToAdjacent ==
    IsDrawingMove =>
        LET before == lastEvent.before
            pos == lastEvent.cell
        IN  /\ currentPath = Append(before, pos)
               <=> /\ pos \in Cells(puzzle.gridSize)
                   /\ Manhattan(PathHead(before), pos) = 1
                   /\ ~OnPath(before, pos)
            /\ Manhattan(PathHead(before), pos) # 1 => currentPath = before

\* a diagonal move during a drag, rejected
C9_Witness ==
    /\ IsDrawingMove
    /\ Len(lastEvent.before) >= 2
    /\ lastEvent.cell \in Cells(puzzle.gridSize)
    /\ Abs(lastEvent.cell.x - PathHead(lastEvent.before).x) = 1
    /\ Abs(lastEvent.cell.y - PathHead(lastEvent.before).y) = 1
    /\ ~OnPath(lastEvent.before, lastEvent.cell)
    /\ currentPath = lastEvent.before

\* C10: a path is started only by a press on checkpoint 1 while
\* currentPath is empty, and then currentPath = [that cell]; any other
\* press on an empty path leaves it empty; a press on checkpoint 1 while a
\* path exists cuts the path back to it only if the backtrack rule allows.
C10_StartOnlyAtDotOne ==
    /\ (lastEvent.type # "none" /\ lastEvent.before = <<>>
          /\ currentPath # <<>>) =>
          /\ lastEvent.type = "down"
          /\ lastEvent.cell = NumberedPos(puzzle, 1)
          /\ currentPath = <<lastEvent.cell>>
    /\ (lastEvent.type = "down" /\ lastEvent.enabled
          /\ lastEvent.before = <<>>) =>
          IF lastEvent.cell = NumberedPos(puzzle, 1)
          THEN currentPath = <<lastEvent.cell>> /\ isDragging
          ELSE currentPath = <<>> /\ ~isDragging
    /\ (lastEvent.type = "down" /\ lastEvent.before # <<>>
          /\ lastEvent.cell = NumberedPos(puzzle, 1)) =>
          IF lastEvent.enabled
             /\ BacktrackLegal(puzzle, lastEvent.before, lastEvent.cell)
          THEN currentPath = <<lastEvent.cell>>
          ELSE currentPath = lastEvent.before

\* a press on checkpoint 1 that started the path
C10_Witness ==
    /\ lastEvent.type = "down"
    /\ lastEvent.before = <<>>
    /\ lastEvent.cell = NumberedPos(puzzle, 1)
    /\ currentPath = <<lastEvent.cell>>
    /\ isDragging

\* does validateSolution accept the path as a finished solution?
Solved(pz, p) ==
    validateSolution(pz, p).isValid /\ validateSolution(pz, p).isComplete

\* C11: the session is Won (game mode 'completed') exactly when
\* validateSolution of the current path reports isValid and isComplete:
\* the win check of every path update and the win check of the pointer
\* release accept the same paths, and nothing else makes the session Won.
C11_WonIffSolutionValid ==
    /\ isCompleted <=> gameMode = "completed"
    /\ gameMode = "completed" => puzzle # NoPuzzle
    /\ puzzle # NoPuzzle =>
          /\ gameMode = "completed" <=> Solved(puzzle, currentPath)
          /\ currentPath # <<>> =>
                (checkWinCondition(puzzle, currentPath)
                    <=> Solved(puzzle, currentPath))

\* the move that drew the last cell of a solution won the game
C11_Witness ==
    /\ gameMode = "completed"
    /\ lastEvent.type = "move"
    /\ lastEvent.enabled
    /\ currentPath = Append(lastEvent.before, lastEvent.cell)
    /\ Solved(puzzle, currentPath)
    /\ checkWinCondition(puzzle, currentPath)

C13_ResetLeavesEmpty ==
    /\ gameMode \in {"idle", "playing", "completed"} =>
          ENABLED handleNewPuzzle
    /\ lastEvent.type = "reset" =>
          /\ gameMode \in {"generating", "playing"}
          /\ currentPath = <<>>
          /\ ~isCompleted
          /\ startTime = NoTime /\ endTime = NoTime
          /\ ~isDragging /\ dragPath = <<>>
    /\ gameMode = "generating" => lastEvent.type = "reset"
    /\ (lastEvent.type \in {"down", "move", "up"}
          /\ lastEvent.before = <<>> /\ currentPath # <<>>) =>
          currentPath = <<NumberedPos(puzzle, 1)>>

\* a reset out of Won, with the drag still held, and the new puzzle
\* installed
C13_Witness ==
    /\ lastEvent.type = "reset"
    /\ ~lastEvent.enabled
    /\ lastEvent.dragging
    /\ Len(lastEvent.before) = 9
    /\ gameMode = "playing"
    /\ puzzle # NoPuzzle
    /\ currentPath = <<>>
    /\ startTime = NoTime /\ endTime = NoTime

\* is p a Path of the puzzle: cells pairwise distinct and inside the
\* grid, consecutive cells orthogonally adjacent
IsPath(pz, p) ==
    /\ \A i \in 1..Len(p) : p[i] \in Cells(pz.gridSize)
    /\ \A i \in 1..Len(p) : \A j \in 1..Len(p) : i # j => p[i] # p[j]
    /\ \A i \in 2..Len(p) : Manhattan(p[i - 1], p[i]) = 1

\* C19: in every state reached by presses, moves and releases on a
\* puzzle, currentPath is a Path of at most N*N cells whose first cell,
\* when there is one, is checkpoint 1; only the reset empties it again.
C19_CurrentPathIsPath ==
    /\ puzzle = NoPuzzle => currentPath = <<>>
    /\ puzzle # NoPuzzle =>
          /\ IsPath(puzzle, currentPath)
          /\ Len(currentPath) <= puzzle.gridSize * puzzle.gridSize
          /\ currentPath # <<>> => currentPath[1] = NumberedPos(puzzle, 1)
          /\ (lastEvent.type \in {"down", "move", "up"}
                /\ lastEvent.before # <<>>) => currentPath # <<>>

\* a drag that filled the grid along another path than the solution path
\* without solving the puzzle
C19_Witness ==
    /\ puzzle # NoPuzzle
    /\ gameMode = "playing"
    /\ Len(currentPath) = puzzle.gridSize * puzzle.gridSize
    /\ lastEvent.type = "move"
    /\ currentPath = Append(lastEvent.before, lastEvent.cell)
    /\ currentPath # puzzle.solutionPath
    /\ IsPath(puzzle, currentPath)

(***************************************************************************)
(* Properties of validateSolution, generateSimplePuzzle and the default    *)
(* dot count.                                                              *)
(***************************************************************************)
EndError == "Path must end on the highest numbered dot"

\* C14: validateSolution reports isValid = false, with the 'must end on
\* the highest numbered dot' error, for every path whose last cell is not
\* the highest-numbered checkpoint, even for a path that covers every
\* cell once, is continuous and meets the checkpoints in ascending order;
\* the final checkpoint in mid-path does not count.
C14_MustEndOnFinalDot ==
    callValidation # NoValidation =>
        LET final == HighestDot(callPuzzle.dots).position
            endsThere == callPath # <<>> /\ PathHead(callPath) = final
        IN  /\ ~endsThere =>
                  /\ ~callValidation.isValid
                  /\ EndError \in Range(callValidation.errors)
            /\ endsThere => EndError \notin Range(callValidation.errors)

\* a path over every cell, continuous, checkpoints in order, the final
\* checkpoint in mid-path: the end error is the only one
C14_Witness ==
    /\ callValidation # NoValidation
    /\ callValidation.isComplete
    /\ ~callValidation.isValid
    /\ callValidation.errors = <<EndError>>
    /\ OnPath(callPath, HighestDot(callPuzzle.dots).position)
    /\ PathHead(callPath) # HighestDot(callPuzzle.dots).position

\* C15: generateSimplePuzzle(N) returns, for every N >= 2, a puzzle whose
\* solutionPath has N*N distinct in-grid cells with consecutive cells
\* orthogonally adjacent, and whose checkpoints are numbered 1..K at
\* distinct positions with strictly increasing path index, the first at
\* path[0] and the last at path[N*N-1].
C15_SimplePuzzleIsValid ==
    callPuzzle # NoPuzzle =>
        LET sp == callPuzzle.solutionPath
            dots == callPuzzle.dots
        IN  /\ callPuzzle.gridSize = callN
            /\ Len(sp) = callN * callN
            /\ IsPath(callPuzzle, sp)
            /\ Len(dots) >= 2
            /\ \A k \in 1..Len(dots) : dots[k].number = k
            /\ \A k \in 1..Len(dots) : FindIndex(sp, dots[k].position) # -1
            /\ \A k \in 1..(Len(dots) - 1) :
                  FindIndex(sp, dots[k].position)
                    < FindIndex(sp, dots[k + 1].position)
            /\ dots[1].position = sp[1]
            /\ dots[Len(dots)].position = sp[Len(sp)]

\* the spiral of a grid beyond the table of dot counts
C15_Witness ==
    /\ callPuzzle # NoPuzzle
    /\ callN >= 9
    /\ Len(callPuzzle.solutionPath) = callN * callN
    /\ Len(callPuzzle.dots) = 4

\* the dot counts stated for the grid sizes 3..8
StatedDotCounts == <<4, 6, 8, 10, 12, 15>>

\* C20 as stated: without a supplied dot count the number of checkpoints
\* is 4, 6, 8, 10, 12, 15 for N = 3..8 and ceil(1.5 * N) for every other
\* N >= 2.
C20_DefaultDotsRoundUp ==
    callDotCount # 0 =>
        callDotCount = IF callN \in 3..8 THEN StatedDotCounts[callN - 2]
                       ELSE (3 * callN + 1) \div 2

\* C20 amended: without a supplied dot count the number of checkpoints
\* is 4, 6, 8, 10, 12, 15 for N = 3..8 and floor(1.5 * N) for every
\* other N >= 2.
C20_DefaultDotsRoundDown ==
    callDotCount # 0 =>
        callDotCount = IF callN \in 3..8 THEN StatedDotCounts[callN - 2]
                       ELSE (3 * callN) \div 2

\* an odd grid size outside the table
C20_Witness ==
    /\ callN = 9
    /\ callDotCount = 13

\* C16: after every New Puzzle request the game eventually leaves
\* 'generating' and enters 'playing' with a puzzle installed, whether the
\* fast generation succeeded, the standard one succeeded after the fast one
\* was exhausted, or both were exhausted and generateSimplePuzzle was used;
\* the game is never in play without a puzzle.
C16_NewPuzzleReachesPlay ==
    /\ [](gameMode = "generating" =>
            <>(gameMode = "playing" /\ puzzle # NoPuzzle /\ ~isGenerating))
    /\ [](gameMode = "playing" => puzzle # NoPuzzle /\ ~isGenerating)
    /\ [](gameMode = "generating" => isGenerating /\ puzzle = NoPuzzle)

\* both generator calls were exhausted and play began on the puzzle of
\* generateSimplePuzzle
C16_Witness ==
    /\ gameMode = "playing"
    /\ gpc = "idle"
    /\ optMaxAttempts = StandardMaxAttempts
    /\ failed = StandardMaxAttempts
    /\ ~result.success
    /\ puzzle = generateSimplePuzzle(gameGridSize)

\* C21: the deadline of an attempt is its start time plus the timeout given
\* to generatePuzzle in its options: once more than options.timeout has
\* elapsed since the attempt started the search explores no further cell; in
\* particular an attempt of generateFastZipPuzzle explores nothing after
\* 3000 ms.
C21_DeadlineIsOptionsTimeout ==
    [][(gpc = "search" /\ optTimeout # 0 /\ elapsed > optTimeout) =>
          /\ Len(path') <= Len(path)
          /\ visited' \subseteq visited]_vars

\* can the walk p be extended to a Hamiltonian path of the n x n grid?
RECURSIVE CanComplete(_, _)
CanComplete(n, p) ==
    \/ Len(p) = n * n
    \/ \E c \in Cells(n) :
          /\ Abs(c.x - p[Len(p)].x) + Abs(c.y - p[Len(p)].y) = 1
          /\ c \notin Range(p)
          /\ CanComplete(n, Append(p, c))

\* the innermost running call has tried all its neighbours and is about to
\* return failure, the deadline not having passed
ReturnsFailureInTime ==
    /\ gpc = "search"
    /\ ~isTimedOut
    /\ Len(stack) > 1
    /\ stack[Len(stack)] = <<>>

\* C22: the search is exhaustive under every neighbour-ordering strategy:
\* the list handed to the loop holds every unvisited in-bounds orthogonal
\* neighbour of the cell exactly once, so a call that returns failure before
\* the deadline had no Hamiltonian completion of its path; in particular
\* the search from a corner of a grid of size 2 or more does not fail
\* before the deadline.
C22_SearchIsExhaustive ==
    /\ [][(gpc = "search" /\ Len(stack') = Len(stack) + 1) =>
            LET nb == stack'[Len(stack')]
                pos == path'[Len(path')]
            IN  /\ \A i \in 1..Len(nb) : \A j \in 1..Len(nb) :
                      i # j => nb[i] # nb[j]
                /\ Range(nb) =
                     { c \in Cells(gridSize) :
                         /\ Abs(c.x - pos.x) + Abs(c.y - pos.y) = 1
                         /\ c \notin visited' }]_vars
    /\ [](ReturnsFailureInTime =>
            /\ ~CanComplete(gridSize, path)
            /\ Len(path) = 1 =>
                  path[1] \notin getOptimalStartPosition(gridSize))

\* the search from the middle of an edge of the 3x3 grid has tried
\* everything with the clock not advanced, and its outermost call is about
\* to return failure
C22_Witness ==
    /\ ReturnsFailureInTime
    /\ algorithm \in Algorithms
    /\ gridSize = 3
    /\ elapsed = 0
    /\ path = <<Pos(1, 0)>>

\* C23: a failed search leaves no trace: during the search the visited set
\* (and the grid marks) are exactly the cells of the path stack, one cell per
\* running call; a call that returns failure leaves the path and the visited
\* set as they were at its entry (the cells below it are never touched, the
\* call's own cell is popped and unmarked); after a failed search both are
\* empty, and an attempt starts from an empty path and visited set.
C23_FailedSearchLeavesNoTrace ==
    /\ [](gpc = "search" =>
            /\ visited = Range(path)
            /\ grid = visited
            /\ Cardinality(visited) = Len(path)
            /\ Len(stack) = Len(path) + 1)
    /\ [][gpc = "search" =>
            /\ \A k \in 1..Min(Len(path), Len(path')) : path'[k] = path[k]
            /\ (gpc' = "search" /\ Len(stack') = Len(stack)) =>
                  (path' = path /\ visited' = visited)
            /\ (gpc' = "search" /\ Len(stack') < Len(stack)) =>
                  /\ Len(stack') = Len(stack) - 1
                  /\ path' = SubSeq(path, 1, Len(path) - 1)
                  /\ visited' = Range(path')
            /\ gpc' = "loop" =>
                  (path' = <<>> /\ visited' = {} /\ grid' = {})]_vars
    /\ [][(gpc = "loop" /\ gpc' = "search") =>
            (path' = <<>> /\ visited' = {} /\ grid' = {})]_vars

\* the search of the first attempt on the 3x3 grid has failed on the
\* deadline, and the loop is about to start the
\* second attempt
C23_Witness ==
    /\ gpc = "loop"
    /\ gridSize = 3
    /\ attempt = 2
    /\ failed = 1
    /\ isTimedOut
    /\ path = <<>>
    /\ visited = {}

\* the path index (counted from 0) of the dot numbered k before the jitter
EvenIndex(k) == FindIndex(selPath, selResult.even[k].position)

\* C24 as stated: before the jitter the intermediate checkpoint with number
\* i (1 < i < dotCount) on a path of length len is at path index
\* min(i * floor((len-1)/(dotCount-1)), len-2).
C24_IntermediateAtNumberTimesStep ==
    selResult.kind = "dots" =>
        \A i \in 2..(selDotCount - 1) :
            EvenIndex(i) =
                Min(i * ((Len(selPath) - 1) \div (selDotCount - 1)),
                    Len(selPath) - 2)

\* C24 as the code has it: before the jitter the intermediate checkpoint
\* with number i (1 < i < dotCount) on a path of length len is at path index
\* min((i-1) * floor(len/(dotCount-1)), len-2), and carries the number i.
C24_IntermediateAtEvenStep ==
    selResult.kind = "dots" =>
        /\ Len(selResult.even) = selDotCount
        /\ \A i \in 2..(selDotCount - 1) :
              /\ selResult.even[i].number = i
              /\ EvenIndex(i) =
                    Min((i - 1) * (Len(selPath) \div (selDotCount - 1)),
                        Len(selPath) - 2)

\* a call with four dots on the path of nine cells: the step is 3, not 2,
\* and checkpoint 3 starts at index 6
C24_Witness ==
    /\ selResult.kind = "dots"
    /\ Len(selPath) = 9
    /\ selDotCount = 4
    /\ EvenIndex(3) = 6

\* the path index (counted from 0) of the dot numbered k in the result
FinalIndex(k) == FindIndex(selPath, selResult.dots[k].position)

\* the bounds the jitter computes for the intermediate dot numbered k: the
\* dot before it has been moved already, the dot after it has not
JitterMinIndex(k) == IF k = 2 THEN 1 ELSE FinalIndex(k - 1) + 1

JitterMaxIndex(k) ==
    IF k = selDotCount - 1 THEN Len(selPath) - 2 ELSE EvenIndex(k + 1) - 1

IntervalWidth(k) == JitterMaxIndex(k) - JitterMinIndex(k)

\* what the jitter is stated to do apart from the size of the offset
JitterFrame ==
    /\ FinalIndex(1) = EvenIndex(1)
    /\ FinalIndex(selDotCount) = EvenIndex(selDotCount)
    /\ \A k \in 2..(selDotCount - 1) :
          /\ FinalIndex(k) >= EvenIndex(k)
          /\ IntervalWidth(k) <= 0 => FinalIndex(k) = EvenIndex(k)
          /\ FinalIndex(k) < EvenIndex(k + 1)
          /\ FinalIndex(k) < FinalIndex(k + 1)

\* C25 as stated: the jitter moves an intermediate checkpoint only forward,
\* by at most min(3, interval_width/3) steps, interval_width being the width
\* of the index interval strictly between its two neighbours; it moves
\* nothing when that interval has no positive width, never moves the first
\* or the last checkpoint, and never reaches the next checkpoint's index.
C25_JitterAtMostThirdOfInterval ==
    selResult.kind = "dots" =>
        /\ JitterFrame
        /\ \A k \in 2..(selDotCount - 1) :
              /\ FinalIndex(k) - EvenIndex(k) <= 3
              /\ 3 * (FinalIndex(k) - EvenIndex(k)) <= IntervalWidth(k)

\* C25 as the code has it: the jitter moves an intermediate checkpoint only
\* forward, by at most min(2, interval_width - 1) steps; it moves nothing
\* when the interval has no positive width, never moves the first or the
\* last checkpoint, and never reaches the next checkpoint's index.
C25_JitterBelowIntervalWidth ==
    selResult.kind = "dots" =>
        /\ JitterFrame
        /\ \A k \in 2..(selDotCount - 1) :
              IntervalWidth(k) > 0 =>
                  FinalIndex(k) - EvenIndex(k)
                      <= Min(2, IntervalWidth(k) - 1)

\* PuzzleGenerator moved checkpoint 2 of three on the path of five cells by
\* one step, the interval between its neighbours being two wide
C25_Witness ==
    /\ selResult.kind = "dots"
    /\ selVariant = "standard"
    /\ Len(selPath) = 5
    /\ selDotCount = 3
    /\ IntervalWidth(2) = 2
    /\ FinalIndex(2) = EvenIndex(2) + 1

\* C26: the start cell of every generation attempt is one of the four grid
\* corners; no attempt starts on a non-corner edge cell or an interior cell,
\* so solutionPath[0] of every generated puzzle is a corner.
C26_StartIsCorner ==
    /\ (gpc = "search" /\ path = <<>> /\ stack # <<>>) =>
          \A k \in 1..Len(stack[1]) :
              stack[1][k] \in getOptimalStartPosition(gridSize)
    /\ (gpc \in {"search", "found"} /\ path # <<>>) =>
          path[1] \in getOptimalStartPosition(gridSize)
    /\ (result.kind = "returned" /\ result.success) =>
          result.puzzle.solutionPath[1] \in getOptimalStartPosition(gridSize)

(***************************************************************************)
(* Properties of getNextExpectedDot.                                       *)
(***************************************************************************)
\* is checkpoint j on the path, and (for j > 1) after checkpoint j - 1?
SatisfiedInOrder(pz, p, j) ==
    /\ HasNumber(pz, j)
    /\ OnPath(p, NumberedPos(pz, j))
    /\ j > 1 => FindIndex(p, NumberedPos(pz, j))
                  > FindIndex(p, NumberedPos(pz, j - 1))

\* how many checkpoints 1, 2, ... are satisfied in order before the first
\* that is absent or lies before its predecessor
InOrderCount(pz, p) ==
    CHOOSE k \in 0..Len(pz.dots) :
        /\ \A j \in 1..k : SatisfiedInOrder(pz, p, j)
        /\ ~SatisfiedInOrder(pz, p, k + 1)

\* C27: getNextExpectedDot returns checkpoint 1 for the empty path and
\* otherwise the checkpoint numbered k+1, k being the count of checkpoints
\* satisfied in order; it returns none iff all checkpoints are satisfied in
\* order; a higher-numbered checkpoint on the path while a lower-numbered
\* one is missing is not counted as satisfied.
C27_NextExpectedIsFirstUnsatisfied ==
    callNextDot.called =>
        LET k == InOrderCount(callPuzzle, callPath)
            next == callNextDot.dot
        IN  /\ callPath = <<>> =>
                  (next.number = 1
                     /\ next.position = NumberedPos(callPuzzle, 1))
            /\ k < Len(callPuzzle.dots) =>
                  (next.number = k + 1
                     /\ next.position = NumberedPos(callPuzzle, k + 1))
            /\ next = NoDot <=> k = Len(callPuzzle.dots)
            /\ \A j \in 1..Len(callPuzzle.dots) :
                  ~OnPath(callPath, NumberedPos(callPuzzle, j)) =>
                      (next # NoDot /\ next.number <= j)

\* checkpoints 1 and 3 of the 3x3 puzzle are on the path, checkpoint 2 is
\* not: checkpoint 2 is expected next
C27_Witness ==
    /\ callNextDot.called
    /\ callN = 3
    /\ OnPath(callPath, NumberedPos(callPuzzle, 1))
    /\ ~OnPath(callPath, NumberedPos(callPuzzle, 2))
    /\ OnPath(callPath, NumberedPos(callPuzzle, 3))
    /\ callNextDot.dot.number = 2

\* C28: completion is recorded exactly once per puzzle: once the session is
\* won, no later event changes the recorded end time while the session
\* stays won (in particular not the pointer release or pointer leave that
\* ends the drag which completed the puzzle).
C28_EndTimeRecordedOnce ==
    [][(gameMode = "completed" /\ isCompleted /\ gameMode' = "completed")
          => endTime' = endTime]_vars

\* C29: validateSolution never returns isValid = true with isComplete =
\* false: a path whose length differs from N*N gets an error and is invalid
\* even if it obeys every movement rule, so 'isValid and isComplete' (what
\* validatePuzzleSolution returns) is equivalent to isValid alone, and the
\* error list is empty iff isValid.
C29_ValidImpliesComplete ==
    callValidation # NoValidation =>
        LET v == callValidation
        IN  /\ ~(v.isValid /\ ~v.isComplete)
            /\ v.isComplete <=>
                  Len(callPath) = callPuzzle.gridSize * callPuzzle.gridSize
            /\ ~v.isComplete =>
                  (~v.isValid /\ v.errors # <<>>
                     /\ v.errors[1] = "Path incomplete")
            /\ (v.isValid /\ v.isComplete) <=> v.isValid
            /\ v.errors = <<>> <=> v.isValid

\* a walk of the 3x3 grid that is too short and breaks no other rule: the
\* only error is the incompleteness, and the path is reported invalid
C29_Witness ==
    /\ callValidation # NoValidation
    /\ callN = 3
    /\ callPath # <<>>
    /\ Len(callPath) < 9
    /\ callValidation.errors = <<"Path incomplete">>
    /\ ~callValidation.isValid

\* C30: generatePuzzle never returns a puzzle when the requested dotCount
\* lies outside [2, N*N] (0, 1, or more than N*N): the call ends with
\* success = false; and a puzzle returned for a requested dotCount has
\* exactly that many checkpoints.
C30_NoPuzzleForInvalidDotCount ==
    (gpc = "done" /\ result.kind = "returned" /\ result.success) =>
        /\ optDotCount \in 2..(gridSize * gridSize)
        /\ Len(result.puzzle.dots) = optDotCount

====
